---- MODULE Spec2Model ----
(***************************************************************************)
(* Model of scripts/west_commands/cloudgen.py: the `west cloudgen` command *)
(* that compiles the TDF, KV and RPC schema documents (base + optional     *)
(* extension) into headers, Kconfig fragments and host-binding modules.    *)
(*                                                                         *)
(* Python dicts are functions over their keys (so `"num" in field` is      *)
(* "num" \in DOMAIN field); Python strings that the generator builds are   *)
(* sequences of characters / chunks, so that formatting and parsing are    *)
(* computed, not assumed.  A type string such as "struct A" is the         *)
(* sequence of its space separated words <<"struct", "A">>.                *)
(***************************************************************************)
EXTENDS Integers, Sequences, FiniteSets, TLC

VARIABLES
    pc,               \* position of do_run / tdfgen / kvgen / rpcgen
    defs_arg,         \* args.defs: "none" | "missing" (path absent) | "dir"
    family,           \* family whose generator is running ("none" before)
    doc,              \* tdf_defs / kv_defs / rpc_defs of the running generator
    ext,              \* tdf_defs_ext / kv_defs_ext / rpc_defs_ext (NoDoc if none)
    extensions_exist, \* tdf_/kv_/rpc_extensions_exist, per family
    log,              \* file system effects so far: writes and formatter runs
    error,            \* exception that ended the run ("" while running)
    base0,            \* history: the base document as json.load returned it
    ext0              \* history: the extension document as json.load returned it

vars == <<pc, defs_arg, family, doc, ext, extensions_exist, log, error, base0, ext0>>

(***************************************************************************)
(* Bounds of the model.                                                    *)
(***************************************************************************)
\* largest fixed array count `num` of a field in the input documents
MaxNum == 2
\* extension IDs range up to threshold + MaxIdOffset
MaxIdOffset == 1

(***************************************************************************)
(* Python dict and string primitives.                                      *)
(***************************************************************************)
Has(d, k) == k \in DOMAIN d

Get(d, k, default) == IF k \in DOMAIN d THEN d[k] ELSE default

\* d[k] = v
Put(d, k, v) == [x \in (DOMAIN d) \cup {k} |-> IF x = k THEN v ELSE d[x]]

\* d.update(e)
Update(d, e) ==
    [x \in (DOMAIN d) \cup (DOMAIN e) |-> IF x \in DOMAIN e THEN e[x] ELSE d[x]]

EmptyDict == << >>

\* d.values(), for the loops that visit every entry
Values(d) == {d[k] : k \in DOMAIN d}

\* a JSON array where the generators expect an object: a Python list, which
\* has none of the dict methods (.items(), .update(), .values())
PyList(items) == [python_list |-> items]

IsList(v) == DOMAIN v = {"python_list"}

DigitChar == <<"0", "1", "2", "3", "4", "5", "6", "7", "8", "9">>

\* str(n) of a non-negative integer, as the f-strings format it
RECURSIVE Str(_)
Str(n) ==
    IF n < 0 THEN <<"-">> \o Str(-n)
    ELSE IF n < 10 THEN <<DigitChar[n + 1]>>
    ELSE Str(n \div 10) \o <<DigitChar[(n % 10) + 1]>>

\* int(s) of a JSON object key: a sequence of decimal digits
RECURSIVE ParseInt(_)
ParseInt(s) ==
    IF Len(s) = 0 THEN 0
    ELSE 10 * ParseInt(SubSeq(s, 1, Len(s) - 1)) + s[Len(s)]

(***************************************************************************)
(* Program constants.                                                      *)
(***************************************************************************)
TdfThreshold == 1024
KvThreshold == 32768
RpcThreshold == 32768

Families == {"tdf", "kv", "rpc"}

Threshold(f) ==
    CASE f = "tdf" -> TdfThreshold
      [] f = "kv" -> KvThreshold
      [] f = "rpc" -> RpcThreshold

\* key of the ID-keyed map of a family's document
EntriesKey(f) == IF f = "rpc" THEN "commands" ELSE "definitions"

ctype_mapping ==
    [t \in {"uint8_t", "uint16_t", "uint32_t", "uint64_t", "int8_t", "int16_t",
            "int32_t", "int64_t", "char", "float"} |->
        CASE t = "uint8_t" -> "ctypes.c_uint8"
          [] t = "uint16_t" -> "ctypes.c_uint16"
          [] t = "uint32_t" -> "ctypes.c_uint32"
          [] t = "uint64_t" -> "ctypes.c_uint64"
          [] t = "int8_t" -> "ctypes.c_int8"
          [] t = "int16_t" -> "ctypes.c_int16"
          [] t = "int32_t" -> "ctypes.c_int32"
          [] t = "int64_t" -> "ctypes.c_int64"
          [] t = "char" -> "ctypes.c_char"
          [] t = "float" -> "ctypes.c_float"]

NoDoc == [none |-> TRUE]


(***************************************************************************)
(* Field normalisation helpers shared by the generators.                   *)
(***************************************************************************)
\* for i in range(len(d[key])): d = Op(d, key, i)
LoopFields(Op(_, _, _), d, key) ==
    LET F[i \in 0..Len(d[key])] == IF i = 0 THEN d ELSE Op(F[i - 1], key, i)
    IN F[Len(d[key])]

\* for d in m.values(): d = Op(d)
ForValues(Op(_), m) == [k \in DOMAIN m |-> Op(m[k])]

\* faulty variant of _array_postfix: the owner is marked flexible for every array,
\* not only for num == 0
_array_postfix_FlexibleOnAnyArray(d, key, i) ==
    LET field == d[key][i]
        cleared == Put(field, "array", << >>)
    IN IF Has(field, "num")
       THEN IF field["num"] = 0
            THEN Put(Put(d, "flexible", TRUE), key,
                     [d[key] EXCEPT ![i] = Put(cleared, "array", <<"[", "]">>)])
            ELSE Put(Put(d, "flexible", TRUE), key,
                     [d[key] EXCEPT ![i] =
                        Put(cleared, "array", <<"[">> \o Str(field["num"]) \o <<"]">>)])
       ELSE Put(d, key, [d[key] EXCEPT ![i] = cleared])

\* faulty variant of _array_postfix: no case for num == 0, the count is always printed
_array_postfix_NoEmptyCase(d, key, i) ==
    LET field == d[key][i]
        cleared == Put(field, "array", << >>)
        owner == IF Has(field, "num") /\ field["num"] = 0
                 THEN Put(d, "flexible", TRUE) ELSE d
    IN IF Has(field, "num")
       THEN Put(owner, key,
                [d[key] EXCEPT ![i] =
                   Put(cleared, "array", <<"[">> \o Str(field["num"]) \o <<"]">>)])
       ELSE Put(d, key, [d[key] EXCEPT ![i] = cleared])

\* cloudgen._array_postfix(d, field), field being d[key][i]
_array_postfix(d, key, i) ==
    LET field == d[key][i]
        cleared == Put(field, "array", << >>)
    IN IF Has(field, "num")
       THEN IF field["num"] = 0
            THEN Put(Put(d, "flexible", TRUE), key,
                     [d[key] EXCEPT ![i] = Put(cleared, "array", <<"[", "]">>)])
            ELSE Put(d, key,
                     [d[key] EXCEPT ![i] =
                        Put(cleared, "array", <<"[">> \o Str(field["num"]) \o <<"]">>)])
       ELSE Put(d, key, [d[key] EXCEPT ![i] = cleared])

\* t.startswith("struct")
IsStructType(t) == Len(t) > 0 /\ t[1] = "struct"

\* t.startswith("enum")
IsEnumType(t) == Len(t) > 0 /\ t[1] = "enum"

\* ctype_mapping[field["type"]] raises KeyError
PyTypeRaises(field) ==
    /\ ~IsStructType(field["type"])
    /\ ~(Len(field["type"]) = 1 /\ field["type"][1] \in DOMAIN ctype_mapping)

\* cloudgen._py_type(field, struct_prefix), when it does not raise
_py_type(field, struct_prefix) ==
    LET t == field["type"]
        base == IF IsStructType(t)
                THEN (IF struct_prefix THEN <<"structs.">> ELSE << >>) \o Tail(t)
                ELSE <<ctype_mapping[t[1]]>>
    IN IF Has(field, "num") THEN Str(field["num"]) \o <<" * ">> \o base ELSE base

\* some field of d[key] makes _py_type raise
AnyPyTypeRaises(d, key) == \E i \in 1..Len(d[key]) : PyTypeRaises(d[key][i])

(***************************************************************************)
(* Extension merge (the same code in tdfgen, kvgen and rpcgen).            *)
(***************************************************************************)
\* faulty variant of ExtIdsInRange: the comparison admits the threshold itself
ExtIdsInRange_OffByOne(e, key, threshold) ==
    \A id \in DOMAIN e[key] : ParseInt(id) >= threshold

\* every `assert int(id) > threshold` passes
ExtIdsInRange(e, key, threshold) ==
    \A id \in DOMAIN e[key] : ParseInt(id) > threshold

\* faulty variant of ExtStructsNew: the name is looked up in the extension's ID map,
\* where no struct name is ever found
ExtStructsNew_WrongMap(base, e) ==
    \A struct_name \in DOMAIN e["structs"] :
        \A k \in DOMAIN e \ {"structs", "enums"} : struct_name \notin DOMAIN e[k]

\* every `assert struct_name not in defs["structs"]` passes
ExtStructsNew(base, e) ==
    \A struct_name \in DOMAIN e["structs"] : struct_name \notin DOMAIN base["structs"]

\* faulty variant of MergeAssertionsPass: the base IDs are asserted to be at most
\* the threshold as well
MergeAssertionsPass_ChecksBase(base, e, key, threshold) ==
    /\ \A id \in DOMAIN e[key] : ParseInt(id) > threshold
    /\ \A id \in DOMAIN base[key] : ParseInt(id) <= threshold
    /\ \A struct_name \in DOMAIN e["structs"] : struct_name \notin DOMAIN base["structs"]

\* no assertion of the extension block fails
MergeAssertionsPass(base, e, key, threshold) ==
    ExtIdsInRange(e, key, threshold) /\ ExtStructsNew(base, e)

\* entry["extension"] = True
TagEntry(entry) == Put(entry, "extension", TRUE)

\* faulty variant of TagExtension: the struct loop does not tag
TagExtension_SkipsStructs(e, key) ==
    Put(e, key, [k \in DOMAIN e[key] |-> Put(e[key][k], "extension", TRUE)])

\* the two loops, once all their assertions have passed
TagExtension(e, key) ==
    Put(Put(e, key, ForValues(TagEntry, e[key])),
        "structs", ForValues(TagEntry, e["structs"]))

\* faulty variant of MergeExtension: the extension's enums are merged into the base's
\* as well
MergeExtension_MergesEnums(base, e, key) ==
    LET merged == Put(Put(base, "structs", Update(base["structs"], e["structs"])),
                      key, Update(base[key], e[key]))
    IN IF Has(base, "enums") /\ Has(e, "enums")
       THEN Put(merged, "enums", Update(base["enums"], e["enums"]))
       ELSE merged

\* faulty variant of MergeExtension: an ID already in the base map keeps its base entry
MergeExtension_BaseWins(base, e, key) ==
    Put(Put(base, "structs", Update(base["structs"], e["structs"])),
        key, Update(e[key], base[key]))

\* defs["structs"].update(ext["structs"]); defs[key].update(ext[key])
MergeExtension(base, e, key) ==
    Put(Put(base, "structs", Update(base["structs"], e["structs"])),
        key, Update(base[key], e[key]))


(***************************************************************************)
(* Input documents: what json.load can return for the base file and the    *)
(* extension file of a family.  Two main groups: documents that vary the   *)
(* keys of the maps (IDs around the threshold, struct names) with plain    *)
(* bodies, and documents that vary the field lists with fixed keys; then   *)
(* per family the documents that vary what only that family reads (KV      *)
(* attributes, RPC enums and parameter lists, KV definitions as an array). *)
(***************************************************************************)
RECURSIVE Digits(_)
Digits(n) == IF n < 10 THEN <<n>> ELSE Digits(n \div 10) \o <<n % 10>>

Fld(n, t) == [name |-> n, type |-> t]

Arr(n, t, k) == [name |-> n, type |-> t, num |-> k]

Plain == <<Fld("x", <<"int16_t">>)>>

ExtPlain == <<Fld("y", <<"uint16_t">>)>>

Flex == <<Fld("n", <<"uint8_t">>), Arr("data", <<"uint8_t">>, 0)>>

RawArray == <<Arr("raw", <<"char">>, 10 + MaxNum)>>

StructBodies == {Plain, Flex, RawArray, <<Fld("inner", <<"struct", "B">>)>>}

DefBodies ==
    {<<Arr("v", <<"uint8_t">>, k)>> : k \in 0..MaxNum}
    \cup {<< >>, Plain, Flex,
          <<Fld("pos", <<"struct", "A">>)>>,
          <<Fld("pos", <<"struct", "M">>)>>,
          <<Fld("v", <<"bogus_t">>)>>,
          <<Fld("status", <<"enum", "Result">>)>>,
          <<Fld("status", <<"enum", "ExtE">>)>>}

BaseEnums ==
    [n \in {"Result"} |->
        [type |-> <<"uint8_t">>, values |-> <<[name |-> "OK", value |-> 0]>>]]

ExtEnums ==
    [n \in {"ExtE"} |->
        [type |-> <<"uint16_t">>, values |-> <<[name |-> "ON", value |-> 1]>>]]

Struct(body) == [fields |-> body]

\* a definition (TDF, KV) or a command (RPC) carrying the field list `body`
Entry(f, body) ==
    IF f = "rpc"
    THEN [name |-> "E", request_params |-> body,
          response_params |-> <<Fld("rc", <<"int16_t">>)>>]
    ELSE [name |-> "E", fields |-> body]

\* an RPC command carrying `body` as its response
EntryResp(body) ==
    [name |-> "E", request_params |-> <<Fld("arg", <<"uint32_t">>)>>,
     response_params |-> body]

BaseDoc(f, structs, entries) ==
    IF f = "rpc"
    THEN [structs |-> structs, enums |-> BaseEnums, commands |-> entries]
    ELSE [structs |-> structs, definitions |-> entries]

ExtDoc(f, structs, entries) ==
    IF f = "rpc"
    THEN [structs |-> structs, enums |-> ExtEnums, commands |-> entries]
    ELSE [structs |-> structs, definitions |-> entries]

BaseIds(f) == {10, Threshold(f) + 1}

ExtIds(f) == {10} \cup {Threshold(f) + o : o \in 0..MaxIdOffset}

KeyedBy(ids, entry) == [k \in {Digits(i) : i \in ids} |-> entry]

Named(names, struct) == [n \in names |-> struct]

MergeInputs(f) ==
    {[base |-> BaseDoc(f, Named(bs, Struct(Plain)), KeyedBy(bi, Entry(f, Plain))),
      ext |-> e] :
        bs \in SUBSET {"A", "B"}, bi \in SUBSET BaseIds(f),
        e \in {NoDoc} \cup
              {ExtDoc(f, Named(es, Struct(ExtPlain)), KeyedBy(ei, Entry(f, ExtPlain))) :
                  es \in SUBSET {"A", "C"}, ei \in SUBSET ExtIds(f)}}

BodyBase(f, sb, entry) ==
    BaseDoc(f, [n \in {"A", "B"} |-> IF n = "A" THEN Struct(sb) ELSE Struct(Flex)],
            KeyedBy({10}, entry))

BodyInputs(f) ==
    {[base |-> BodyBase(f, sb, Entry(f, db)), ext |-> e] :
        sb \in StructBodies, db \in DefBodies,
        e \in {NoDoc,
               ExtDoc(f, Named({"C"}, Struct(ExtPlain)),
                      KeyedBy({Threshold(f) + 1}, Entry(f, ExtPlain)))}}
    \cup
    {[base |-> BodyBase(f, Plain, Entry(f, Plain)),
      ext |-> ExtDoc(f, Named({"C"}, Struct(sb)),
                     KeyedBy({Threshold(f) + 1}, Entry(f, db)))] :
        sb \in StructBodies, db \in DefBodies}

RpcBodyInputs ==
    {[base |-> BodyBase("rpc", RawArray, EntryResp(db)), ext |-> NoDoc] : db \in DefBodies}

\* RPC documents with enum-typed fields in a struct, a request and a response
RpcEnumInputs ==
    {[base |-> BaseDoc("rpc",
                       Named({"A"}, Struct(<<Fld("state", <<"enum", "Result">>),
                                             Arr("raw", <<"uint8_t">>, MaxNum),
                                             Arr("codes", <<"enum", "Result">>, MaxNum)>>)),
                       KeyedBy({5}, [name |-> "E",
                                     request_params |-> <<Fld("mode", <<"enum", "Result">>)>>,
                                     response_params |-> <<Fld("status", <<"enum", "Result">>),
                                                           Fld("rc", <<"int16_t">>)>>])),
      ext |-> NoDoc]}

\* RPC documents with a command that has no request_params or no
\* response_params key (a command without a request or a response body)
RpcMissingParamsInputs ==
    {[base |-> BaseDoc("rpc", Named({"A"}, Struct(Plain)),
                       KeyedBy({10}, [k \in {"name"} \cup present |->
                                        IF k = "name" THEN "E" ELSE Plain])),
      ext |-> NoDoc] :
        present \in {{"request_params"}, {"response_params"}, {}}}

\* KV base documents whose definitions are a JSON array of definitions, with
\* and without a (valid) extension document
KvListInputs ==
    {[base |-> [structs |-> Named({"A"}, Struct(Plain)),
                definitions |-> PyList(<<Entry("kv", Plain), Entry("kv", Flex)>>)],
      ext |-> e] :
        e \in {NoDoc,
               ExtDoc("kv", Named({"C"}, Struct(ExtPlain)),
                      KeyedBy({KvThreshold + 1}, Entry("kv", ExtPlain)))}}

\* a KV definition with the attributes `on` present (flags true, range 4)
\* and the flags `off` present and false
KvDef(on, off) ==
    [k \in {"name", "fields"} \cup on \cup off |->
        CASE k = "name" -> "E"
          [] k = "fields" -> Plain
          [] k = "range" -> 4
          [] k \in off -> FALSE
          [] OTHER -> TRUE]

KvAttrInputs ==
    {[base |-> BaseDoc("kv", EmptyDict, KeyedBy({10}, KvDef(a[1], a[2]))),
      ext |-> NoDoc] :
        a \in {x \in (SUBSET {"reflect", "write_only", "read_only", "range"})
                       \X (SUBSET {"reflect", "write_only", "read_only"}) :
                  x[1] \cap x[2] = {}}}

\* a KV extension defining one key with `reflect: true`, in and out of range
KvExtAttrInputs ==
    {[base |-> BaseDoc("kv", EmptyDict, KeyedBy({10}, Entry("kv", Plain))),
      ext |-> ExtDoc("kv", EmptyDict, KeyedBy({id}, KvDef({"reflect"}, {})))] :
        id \in {30000, 40000}}

\* a struct Vec3 of three int16 fields and an entry with ID 10 whose only
\* field is one (scalar) struct Vec3
Vec3Inputs(f) ==
    {[base |-> BaseDoc(f, Named({"Vec3"}, Struct(<<Fld("x", <<"int16_t">>),
                                                   Fld("y", <<"int16_t">>),
                                                   Fld("z", <<"int16_t">>)>>)),
                       KeyedBy({10}, Entry(f, <<Fld("pos", <<"struct", "Vec3">>)>>))),
      ext |-> NoDoc]}

\* the "conversion" objects of TDF fields: byte order, scale m, offset c,
\* each present or absent
ConvBodies ==
    {[k \in ks |-> CASE k = "int" -> bo [] k = "m" -> m [] OTHER -> c] :
        ks \in SUBSET {"int", "m", "c"}, bo \in {"little", "big"},
        m \in 1..MaxNum, c \in 0..MaxNum}

\* the "display" objects of TDF fields: fmt, digits and postfix, each
\* present or absent
DisplayBodies ==
    {[k \in ks |-> CASE k = "fmt" -> fm [] k = "digits" -> dg [] OTHER -> <<"V">>] :
        ks \in SUBSET {"fmt", "digits", "postfix"}, fm \in {"hex", "float"},
        dg \in 0..MaxNum}

\* TDF documents whose definition 10 has a field with a conversion next to
\* fields without one
TdfConvInputs ==
    {[base |-> BaseDoc("tdf", Named({"A"}, Struct(Plain)),
                       KeyedBy({10},
                               Entry("tdf",
                                     <<Fld("t", <<"uint32_t">>),
                                       [name |-> "a", type |-> <<"uint16_t">>,
                                        conversion |-> cv],
                                       [name |-> "b", type |-> <<"int32_t">>,
                                        display |-> [fmt |-> "hex"]]>>))),
      ext |-> NoDoc] : cv \in ConvBodies}

\* TDF documents whose definition 10 has a field with a display object; the
\* struct A has one with a conversion as well
TdfDisplayInputs ==
    {[base |-> BaseDoc("tdf",
                       Named({"A"}, Struct(<<[name |-> "s", type |-> <<"uint8_t">>,
                                              conversion |-> [m |-> MaxNum],
                                              display |-> d]>>)),
                       KeyedBy({10},
                               Entry("tdf",
                                     <<[name |-> "a", type |-> <<"uint16_t">>,
                                        display |-> d],
                                       Fld("t", <<"uint32_t">>)>>))),
      ext |-> NoDoc] : d \in DisplayBodies}

\* an enum of the base document that carries "extension": true
TaggedEnum == [type |-> <<"uint8_t">>, values |-> <<[name |-> "ON", value |-> 1]>>,
               extension |-> TRUE]

\* RPC base documents whose enums map holds an untagged enum, a tagged one,
\* both or none, with and without a (valid) extension document
RpcTaggedEnumInputs ==
    {[base |-> Put(BaseDoc("rpc", Named({"A"}, Struct(Plain)),
                           KeyedBy({10}, Entry("rpc", Plain))),
                   "enums",
                   [n \in names |-> IF n = "Result" THEN BaseEnums["Result"] ELSE TaggedEnum]),
      ext |-> e] :
        names \in SUBSET {"Result", "Vendor"},
        e \in {NoDoc,
               ExtDoc("rpc", Named({"C"}, Struct(ExtPlain)),
                      KeyedBy({RpcThreshold + 1}, Entry("rpc", ExtPlain)))}}

Inputs(f) ==
    MergeInputs(f) \cup BodyInputs(f) \cup Vec3Inputs(f)
    \cup (IF f = "tdf" THEN TdfConvInputs \cup TdfDisplayInputs ELSE {})
    \cup (IF f = "rpc" THEN RpcBodyInputs \cup RpcEnumInputs \cup RpcMissingParamsInputs
                               \cup RpcTaggedEnumInputs
                          ELSE {})
    \cup (IF f = "kv" THEN KvAttrInputs \cup KvExtAttrInputs ELSE {})

(***************************************************************************)
(* Output files and the record of what happened to them.                   *)
(***************************************************************************)
tdf_output == "include/infuse/tdf/definitions.h"
tdf_definitions_output == "infuse_iot/generated/tdf_definitions.py"
tdf_py_extensions == "generated/tdf_definitions.py"
kv_kconfig_output == "generated/Kconfig.kv_keys"
kv_defs_output == "include/infuse/fs/kv_types.h"
kv_py_output == "infuse_iot/generated/kv_definitions.py"
kv_py_extensions == "generated/kv_definitions.py"
rpc_kconfig_output == "generated/Kconfig.rpc_commands"
rpc_commands_output == "include/infuse/rpc/commands_impl.h"
rpc_runner_output == "generated/rpc_command_runner.c"
rpc_defs_output == "include/infuse/rpc/types.h"
rpc_defs_py_output == "infuse_iot/generated/rpc_definitions.py"
rpc_py_extensions == "generated/rpc_definitions.py"

FilesOf(f) ==
    CASE f = "tdf" -> {tdf_output, tdf_definitions_output, tdf_py_extensions}
      [] f = "kv" -> {kv_kconfig_output, kv_defs_output, kv_py_output, kv_py_extensions}
      [] f = "rpc" -> {rpc_kconfig_output, rpc_commands_output, rpc_runner_output,
                       rpc_defs_output, rpc_defs_py_output, rpc_py_extensions}

\* path.open("w"): the file is created or truncated
Opened(file) == [op |-> "open", file |-> file]

\* f.write(template.render(...))
Written(file) == [op |-> "write", file |-> file]

\* subprocess.run(["clang-format", "-i", ..., file])
clang_format(file) == [op |-> "clang-format", file |-> file]

\* subprocess.run(["ruff", "format", "-q", file])
ruff_format(file) == [op |-> "ruff", file |-> file]

\* with file.open("w") as f: f.write(...)
OpenAndWrite(file) == <<Opened(file), Written(file)>>

(***************************************************************************)
(* do_run                                                                  *)
(***************************************************************************)
Init ==
    /\ pc = "start"
    /\ defs_arg \in {"none", "missing", "dir"}
    /\ family = "none"
    /\ doc = NoDoc
    /\ ext = NoDoc
    /\ extensions_exist = [f \in Families |-> FALSE]
    /\ log = << >>
    /\ error = ""
    /\ base0 = NoDoc
    /\ ext0 = NoDoc

\* faulty variant of Raise: the exception is caught and recorded, and the generator
\* carries on with its formatting step and the next family
Raise_CaughtAndContinued(exc) ==
    /\ pc' = "format"
    /\ error' = exc

\* an exception (or sys.exit) propagates out of do_run
Raise(exc) ==
    /\ pc' = "aborted"
    /\ error' = exc

\* lines 64-67: the extension directory must exist, then tdfgen() is entered
Start ==
    /\ pc = "start"
    /\ IF defs_arg = "missing"
       THEN Raise("SystemExit") /\ UNCHANGED family
       ELSE pc' = "load" /\ family' = "tdf" /\ UNCHANGED error
    /\ UNCHANGED <<defs_arg, doc, ext, extensions_exist, log, base0, ext0>>

\* a generator returns: its documents go out of scope
ReturnFromGenerator ==
    /\ doc' = NoDoc
    /\ ext' = NoDoc
    /\ base0' = NoDoc
    /\ ext0' = NoDoc

\* first step of a generator after its documents are loaded and merged
AfterMerge(f) == IF f = "kv" THEN "flags" ELSE "normalize_structs"

\* faulty variant of LoadDocs: an extension directory without the family's file is an error
LoadDocs_MissingFileFatal(f) ==
    /\ family = f
    /\ pc = "load"
    /\ \E in \in Inputs(f) :
        /\ doc' = in.base
        /\ base0' = in.base
        /\ IF defs_arg = "dir"
           THEN IF in.ext # NoDoc
                THEN /\ extensions_exist' = [extensions_exist EXCEPT ![f] = TRUE]
                     /\ ext' = in.ext
                     /\ ext0' = in.ext
                     /\ pc' = "check_ext"
                     /\ UNCHANGED error
                ELSE /\ ext' = NoDoc
                     /\ ext0' = NoDoc
                     /\ Raise("FileNotFoundError")
                     /\ UNCHANGED extensions_exist
           ELSE /\ ext' = NoDoc
                /\ ext0' = NoDoc
                /\ pc' = AfterMerge(f)
                /\ UNCHANGED <<extensions_exist, error>>
    /\ UNCHANGED <<defs_arg, family, log>>

\* json.load of the base file, and of the extension file when the extension
\* directory was given and holds the family's file
LoadDocs(f) ==
    /\ family = f
    /\ pc = "load"
    /\ \E in \in Inputs(f) :
        /\ doc' = in.base
        /\ base0' = in.base
        /\ IF defs_arg = "dir" /\ in.ext # NoDoc
           THEN /\ extensions_exist' = [extensions_exist EXCEPT ![f] = TRUE]
                /\ ext' = in.ext
                /\ ext0' = in.ext
                /\ pc' = "check_ext"
           ELSE /\ ext' = NoDoc
                /\ ext0' = NoDoc
                /\ pc' = AfterMerge(f)
                /\ UNCHANGED extensions_exist
    /\ UNCHANGED <<defs_arg, family, log, error>>

\* faulty variant of CheckExt: the family's first output file is opened for writing
\* before the extension document is checked
CheckExt_OutputOpenedFirst(f) ==
    /\ family = f
    /\ pc = "check_ext"
    /\ log' = Append(log, Opened(CHOOSE file \in FilesOf(f) : TRUE))
    /\ IF MergeAssertionsPass(doc, ext, EntriesKey(f), Threshold(f))
       THEN /\ ext' = TagExtension(ext, EntriesKey(f))
            /\ pc' = "merge"
            /\ UNCHANGED error
       ELSE /\ Raise("AssertionError")
            /\ UNCHANGED ext
    /\ UNCHANGED <<defs_arg, family, doc, extensions_exist, base0, ext0>>

\* faulty variant of CheckExt: the ID loop adds the entries to the base map as it goes,
\* before the struct names are checked
CheckExt_MergesWhileChecking(f) ==
    /\ family = f
    /\ pc = "check_ext"
    /\ doc' = IF ExtIdsInRange(ext, EntriesKey(f), Threshold(f)) /\ ~IsList(doc[EntriesKey(f)])
              THEN Put(doc, EntriesKey(f), Update(doc[EntriesKey(f)], ext[EntriesKey(f)]))
              ELSE doc
    /\ IF MergeAssertionsPass(doc, ext, EntriesKey(f), Threshold(f))
       THEN /\ ext' = TagExtension(ext, EntriesKey(f))
            /\ pc' = "merge"
            /\ UNCHANGED error
       ELSE /\ Raise("AssertionError")
            /\ UNCHANGED ext
    /\ UNCHANGED <<defs_arg, family, extensions_exist, log, base0, ext0>>

\* the body of `with ext_file.open("r")`: the assertions and the tagging
CheckExt(f) ==
    /\ family = f
    /\ pc = "check_ext"
    /\ IF MergeAssertionsPass(doc, ext, EntriesKey(f), Threshold(f))
       THEN /\ ext' = TagExtension(ext, EntriesKey(f))
            /\ pc' = "merge"
            /\ UNCHANGED error
       ELSE /\ Raise("AssertionError")
            /\ UNCHANGED ext
    /\ UNCHANGED <<defs_arg, family, doc, extensions_exist, log, base0, ext0>>

\* "Merge extensions into base definitions"
Merge(f) ==
    /\ family = f
    /\ pc = "merge"
    /\ IF IsList(doc[EntriesKey(f)])
       THEN \* the structs are merged, then list.update raises AttributeError
            /\ doc' = Put(doc, "structs", Update(doc["structs"], ext["structs"]))
            /\ Raise("AttributeError")
       ELSE /\ doc' = MergeExtension(doc, ext, EntriesKey(f))
            /\ pc' = AfterMerge(f)
            /\ UNCHANGED error
    /\ UNCHANGED <<defs_arg, family, ext, extensions_exist, log, base0, ext0>>


(***************************************************************************)
(* tdfgen                                                                  *)
(***************************************************************************)
TdfLoad == LoadDocs("tdf")

TdfCheckExt == CheckExt("tdf")

TdfMerge == Merge("tdf")

\* for field in d["fields"]: self._array_postfix(d, field)
TdfPostfixFields(d) == LoopFields(_array_postfix, d, "fields")

\* faulty variant of TdfNormalizeStructs: the loop over the structs is left out, the
\* definitions are normalised against structs that are not
TdfNormalizeStructs_Skipped ==
    /\ family = "tdf"
    /\ pc = "normalize_structs"
    /\ pc' = "normalize_defs"
    /\ UNCHANGED <<defs_arg, family, doc, ext, extensions_exist, log, error, base0, ext0>>

\* lines 155-157
TdfNormalizeStructs ==
    /\ family = "tdf"
    /\ pc = "normalize_structs"
    /\ doc' = Put(doc, "structs", ForValues(TdfPostfixFields, doc["structs"]))
    /\ pc' = "normalize_defs"
    /\ UNCHANGED <<defs_arg, family, ext, extensions_exist, log, error, base0, ext0>>

\* faulty variant of TdfNormalizeDef: only the last field is looked at, not the number
\* of fields
TdfNormalizeDef_LastFieldOnly(d) ==
    LET n == TdfPostfixFields(d)
    IN Put(n, "only_flexible",
           Len(n["fields"]) > 0 /\ n["fields"][Len(n["fields"])]["array"] = <<"[", "]">>)

\* lines 159-163, for one definition
TdfNormalizeDef(d) ==
    LET n == TdfPostfixFields(d)
    IN Put(n, "only_flexible",
           Len(n["fields"]) = 1 /\ n["fields"][1]["array"] = <<"[", "]">>)

\* lines 158-163
TdfNormalizeDefs ==
    /\ family = "tdf"
    /\ pc = "normalize_defs"
    /\ doc' = Put(doc, "definitions", ForValues(TdfNormalizeDef, doc["definitions"]))
    /\ pc' = "write_header"
    /\ UNCHANGED <<defs_arg, family, ext, extensions_exist, log, error, base0, ext0>>

\* lines 165-170
TdfWriteHeader ==
    /\ family = "tdf"
    /\ pc = "write_header"
    /\ log' = log \o OpenAndWrite(tdf_output)
    /\ pc' = "annotate"
    /\ UNCHANGED <<defs_arg, family, doc, ext, extensions_exist, error, base0, ext0>>

\* faulty variant of conv_formula: the offset is added before the scale is applied
conv_formula_OffsetFirst(f) ==
    LET conv0 == <<"self._", f["name"]>>
        i == Get(f["conversion"], "int", "None")
        m == Get(f["conversion"], "m", 1)
        c == Get(f["conversion"], "c", 0)
        conv1 == IF i # "None"
                 THEN <<"int.from_bytes(">> \o conv0 \o <<", byteorder='", i, "')">>
                 ELSE conv0
        conv2 == IF c # 0 THEN conv1 \o <<" + ">> \o Str(c) ELSE conv1
        conv3 == IF m # 1 THEN conv2 \o <<" * ">> \o Str(m) ELSE conv2
    IN [name |-> f["name"], conv |-> conv3]

\* lines 172-184
conv_formula(f) ==
    LET conv0 == <<"self._", f["name"]>>
        i == Get(f["conversion"], "int", "None")
        m == Get(f["conversion"], "m", 1)
        c == Get(f["conversion"], "c", 0)
        conv1 == IF i # "None"
                 THEN <<"int.from_bytes(">> \o conv0 \o <<", byteorder='", i, "')">>
                 ELSE conv0
        conv2 == IF m # 1 THEN conv1 \o <<" * ">> \o Str(m) ELSE conv1
        conv3 == IF c # 0 THEN conv2 \o <<" + ">> \o Str(c) ELSE conv2
    IN [name |-> f["name"], conv |-> conv3]

\* `if digits:` of display_format
DigitsGiven(d) == Has(d, "digits") /\ d["digits"] # 0

display_format(f) ==
    IF ~Has(f, "display")
    THEN [name |-> f["name"], fmt |-> <<"\"{}\"">>, postfix |-> <<"\"\"">>]
    ELSE LET d == f["display"]
             fmt0 == <<"\"{}\"">>
             fmt1 == IF Get(d, "fmt", "None") = "hex"
                     THEN IF DigitsGiven(d)
                          THEN <<"\"0x{:0">> \o Str(d["digits"]) \o <<"x}\"">>
                          ELSE <<"\"0x{:x}\"">>
                     ELSE fmt0
             fmt2 == IF Get(d, "fmt", "None") = "float" /\ DigitsGiven(d)
                     THEN <<"\"{:.">> \o Str(d["digits"]) \o <<"f}\"">>
                     ELSE fmt1
             p == Get(d, "postfix", << >>)
         IN [name |-> f["name"], fmt |-> fmt2, postfix |-> <<"\"">> \o p \o <<"\"">>]

\* lines 207-214, for the field s[key][i]
TdfAnnotateField(s, key, i) ==
    LET f == s[key][i]
        named == IF Has(f, "conversion")
                 THEN Put(f, "py_name", <<"_", f["name"]>>)
                 ELSE Put(f, "py_name", <<f["name"]>>)
        s1 == IF Has(f, "conversion")
              THEN Put(s, "conversions", Append(s["conversions"], conv_formula(f)))
              ELSE s
        s2 == Put(s1, "displays", Append(s1["displays"], display_format(f)))
    IN Put(s2, key, [s2[key] EXCEPT ![i] = Put(named, "py_type", _py_type(f, TRUE))])

\* lines 205-214, for one struct or definition
TdfAnnotateOwner(s) ==
    LoopFields(TdfAnnotateField, Put(Put(s, "conversions", << >>), "displays", << >>),
               "fields")

\* lines 203-214; a KeyError of _py_type ends the run
TdfAnnotate ==
    /\ family = "tdf"
    /\ pc = "annotate"
    /\ IF \E s \in Values(doc["structs"]) \cup Values(doc["definitions"]) :
            AnyPyTypeRaises(s, "fields")
       THEN Raise("KeyError") /\ UNCHANGED doc
       ELSE /\ doc' = Put(Put(doc, "structs", ForValues(TdfAnnotateOwner, doc["structs"])),
                          "definitions",
                          ForValues(TdfAnnotateOwner, doc["definitions"]))
            /\ pc' = "generate"
            /\ UNCHANGED error
    /\ UNCHANGED <<defs_arg, family, ext, extensions_exist, log, base0, ext0>>

\* line 226
TdfGenerate ==
    /\ family = "tdf"
    /\ pc = "generate"
    /\ log' = log \o OpenAndWrite(tdf_definitions_output)
    /\ pc' = IF extensions_exist["tdf"] THEN "generate_ext" ELSE "format"
    /\ UNCHANGED <<defs_arg, family, doc, ext, extensions_exist, error, base0, ext0>>

\* faulty variant of TdfGenerateExt: the formatter runs on the extension module
\* before generate() has written it
TdfGenerateExt_FormatsFirst ==
    /\ family = "tdf"
    /\ pc = "generate_ext"
    /\ log' = log \o <<ruff_format(tdf_py_extensions)>> \o OpenAndWrite(tdf_py_extensions)
    /\ pc' = "format"
    /\ UNCHANGED <<defs_arg, family, doc, ext, extensions_exist, error, base0, ext0>>

\* lines 227-230
TdfGenerateExt ==
    /\ family = "tdf"
    /\ pc = "generate_ext"
    /\ log' = log \o OpenAndWrite(tdf_py_extensions) \o <<ruff_format(tdf_py_extensions)>>
    /\ pc' = "format"
    /\ UNCHANGED <<defs_arg, family, doc, ext, extensions_exist, error, base0, ext0>>

\* lines 232-233, then do_run enters kvgen()
TdfFormat ==
    /\ family = "tdf"
    /\ pc = "format"
    /\ log' = log \o <<clang_format(tdf_output), ruff_format(tdf_definitions_output)>>
    /\ pc' = "load"
    /\ family' = "kv"
    /\ ReturnFromGenerator
    /\ UNCHANGED <<defs_arg, extensions_exist, error>>

(***************************************************************************)
(* kvgen                                                                   *)
(***************************************************************************)
KvLoad == LoadDocs("kv")

\* lines 249-256 reading a kv_store.json whose definitions are a JSON array
KvLoadList ==
    /\ family = "kv"
    /\ pc = "load"
    /\ \E in \in KvListInputs :
        /\ doc' = in.base
        /\ base0' = in.base
        /\ IF defs_arg = "dir" /\ in.ext # NoDoc
           THEN /\ extensions_exist' = [extensions_exist EXCEPT !["kv"] = TRUE]
                /\ ext' = in.ext
                /\ ext0' = in.ext
                /\ pc' = "check_ext"
           ELSE /\ ext' = NoDoc
                /\ ext0' = NoDoc
                /\ pc' = AfterMerge("kv")
                /\ UNCHANGED extensions_exist
    /\ UNCHANGED <<defs_arg, family, log, error>>

KvCheckExt == CheckExt("kv")

KvMerge == Merge("kv")

\* values whose Python type varies (d["flags"], d["range_val"])
PyInt(n) == [int |-> n]

PyStr(chunks) == [str |-> chunks]

\* sep.join(list)
RECURSIVE Join(_, _)
Join(list, sep) ==
    IF Len(list) = 0 THEN << >>
    ELSE IF Len(list) = 1 THEN <<list[1]>>
    ELSE <<list[1], sep>> \o Join(Tail(list), sep)

\* {int(k): v for k, v in definitions.items()}; keys that parse to the same
\* number collapse to one entry
IntKeys(definitions) ==
    [n \in {ParseInt(k) : k \in DOMAIN definitions} |->
        definitions[CHOOSE k \in DOMAIN definitions : ParseInt(k) = n]]

\* faulty variant of KvFlagsOf: the flags are always joined, an empty list gives the
\* empty string instead of 0
KvFlagsOf_AlwaysJoined(d) ==
    LET f1 == IF Get(d, "reflect", FALSE) THEN <<"KV_FLAGS_REFLECT">> ELSE << >>
        f2 == IF Get(d, "write_only", FALSE)
              THEN Append(f1, "KV_FLAGS_WRITE_ONLY") ELSE f1
        flags == IF Get(d, "read_only", FALSE)
                 THEN Append(f2, "KV_FLAGS_READ_ONLY") ELSE f2
        d1 == Put(d, "flags", PyStr(Join(flags, " | ")))
    IN IF Has(d, "range")
       THEN Put(d1, "range_val", PyStr(<<"CONFIG_KV_STORE_KEY_", d["name"], "_RANGE">>))
       ELSE Put(d1, "range_val", PyInt(1))

\* lines 271-285, for one definition
KvFlagsOf(d) ==
    LET f1 == IF Get(d, "reflect", FALSE) THEN <<"KV_FLAGS_REFLECT">> ELSE << >>
        f2 == IF Get(d, "write_only", FALSE)
              THEN Append(f1, "KV_FLAGS_WRITE_ONLY") ELSE f1
        flags == IF Get(d, "read_only", FALSE)
                 THEN Append(f2, "KV_FLAGS_READ_ONLY") ELSE f2
        d1 == IF Len(flags) > 0
              THEN Put(d, "flags", PyStr(Join(flags, " | ")))
              ELSE Put(d, "flags", PyInt(0))
    IN IF Has(d, "range")
       THEN Put(d1, "range_val", PyStr(<<"CONFIG_KV_STORE_KEY_", d["name"], "_RANGE">>))
       ELSE Put(d1, "range_val", PyInt(1))

\* lines 269-285; definitions.items() raises AttributeError on a list
KvFlags ==
    /\ family = "kv"
    /\ pc = "flags"
    /\ IF IsList(doc["definitions"])
       THEN Raise("AttributeError") /\ UNCHANGED doc
       ELSE /\ doc' = Put(doc, "definitions",
                          ForValues(KvFlagsOf, IntKeys(doc["definitions"])))
            /\ pc' = "write_kconfig"
            /\ UNCHANGED error
    /\ UNCHANGED <<defs_arg, family, ext, extensions_exist, log, base0, ext0>>

\* lines 287-288
KvWriteKconfig ==
    /\ family = "kv"
    /\ pc = "write_kconfig"
    /\ log' = log \o OpenAndWrite(kv_kconfig_output)
    /\ pc' = "open_header"
    /\ UNCHANGED <<defs_arg, family, doc, ext, extensions_exist, error, base0, ext0>>

\* line 290: the header is opened for writing before the fields are normalised
KvOpenHeader ==
    /\ family = "kv"
    /\ pc = "open_header"
    /\ log' = Append(log, Opened(kv_defs_output))
    /\ pc' = "normalize_structs"
    /\ UNCHANGED <<defs_arg, family, doc, ext, extensions_exist, error, base0, ext0>>

\* faulty variant of array_postfix: kvgen uses the shared helper, which leaves the field unmarked
array_postfix_Shared(d, key, i) == _array_postfix(d, key, i)

\* array_postfix(d, field) local to kvgen, field being d[key][i]
array_postfix(d, key, i) ==
    LET field == d[key][i]
        cleared == Put(field, "array", << >>)
    IN IF Has(field, "num")
       THEN IF field["num"] = 0
            THEN Put(Put(d, "flexible", TRUE), key,
                     [d[key] EXCEPT ![i] =
                        Put(Put(cleared, "array", <<"[", "]">>), "flexible", TRUE)])
            ELSE Put(d, key,
                     [d[key] EXCEPT ![i] =
                        Put(cleared, "array", <<"[">> \o Str(field["num"]) \o <<"]">>)])
       ELSE Put(d, key, [d[key] EXCEPT ![i] = cleared])

KvPostfixFields(d) == LoopFields(array_postfix, d, "fields")

\* lines 302-304
KvNormalizeStructs ==
    /\ family = "kv"
    /\ pc = "normalize_structs"
    /\ doc' = Put(doc, "structs", ForValues(KvPostfixFields, doc["structs"]))
    /\ pc' = "normalize_defs"
    /\ UNCHANGED <<defs_arg, family, ext, extensions_exist, log, error, base0, ext0>>

\* field["type"].startswith("struct ")
IsStructRef(t) == Len(t) > 1 /\ t[1] = "struct"

\* field["type"].removeprefix("struct ")
StructName(t) == t[2]

\* kv_defs["structs"][s] raises KeyError for some field of d
KvStructLookupRaises(structs, d) ==
    \E i \in 1..Len(d["fields"]) :
        /\ IsStructRef(d["fields"][i]["type"])
        /\ StructName(d["fields"][i]["type"]) \notin DOMAIN structs

\* lines 307-313, for field d[key][i], with the structs already normalised
KvNormalizeField(structs, d, key, i) ==
    LET d1 == array_postfix(d, key, i)
        field == d1[key][i]
        s == StructName(field["type"])
    IN IF IsStructRef(field["type"]) /\ Get(structs[s], "flexible", FALSE)
       THEN Put(Put(d1, "flexible", TRUE), key,
                [d1[key] EXCEPT ![i] = Put(field, "flexible_type", s)])
       ELSE d1

\* lines 305-313; a KeyError of the struct lookup ends the run
KvNormalizeDefs ==
    /\ family = "kv"
    /\ pc = "normalize_defs"
    /\ IF \E d \in Values(doc["definitions"]) : KvStructLookupRaises(doc["structs"], d)
       THEN Raise("KeyError") /\ UNCHANGED doc
       ELSE /\ doc' = Put(doc, "definitions",
                          [k \in DOMAIN doc["definitions"] |->
                              LET Step(d, key, i) ==
                                      KvNormalizeField(doc["structs"], d, key, i)
                              IN LoopFields(Step, doc["definitions"][k], "fields")])
            /\ pc' = "write_header"
            /\ UNCHANGED error
    /\ UNCHANGED <<defs_arg, family, ext, extensions_exist, log, base0, ext0>>

\* lines 315-319
KvWriteHeader ==
    /\ family = "kv"
    /\ pc = "write_header"
    /\ log' = Append(log, Written(kv_defs_output))
    /\ pc' = "py_types"
    /\ UNCHANGED <<defs_arg, family, doc, ext, extensions_exist, error, base0, ext0>>

\* f["py_type"] = self._py_type(f, struct_prefix), for field s[key][i]
SetPyType(s, key, i, struct_prefix) ==
    Put(s, key, [s[key] EXCEPT ![i] = Put(@, "py_type", _py_type(@, struct_prefix))])

KvPyTypeField(s, key, i) == SetPyType(s, key, i, TRUE)

KvPyTypeOwner(s) == LoopFields(KvPyTypeField, s, "fields")

\* lines 321-324; a KeyError of _py_type ends the run
KvPyTypes ==
    /\ family = "kv"
    /\ pc = "py_types"
    /\ IF \E s \in Values(doc["structs"]) \cup Values(doc["definitions"]) :
            AnyPyTypeRaises(s, "fields")
       THEN Raise("KeyError") /\ UNCHANGED doc
       ELSE /\ doc' = Put(Put(doc, "structs", ForValues(KvPyTypeOwner, doc["structs"])),
                          "definitions", ForValues(KvPyTypeOwner, doc["definitions"]))
            /\ pc' = "generate"
            /\ UNCHANGED error
    /\ UNCHANGED <<defs_arg, family, ext, extensions_exist, log, base0, ext0>>

\* faulty variant of KvGenerate: the extension-only module is generated whether or not
\* an extension document was loaded
KvGenerate_AlwaysExtension ==
    /\ family = "kv"
    /\ pc = "generate"
    /\ log' = log \o OpenAndWrite(kv_py_output)
    /\ pc' = "generate_ext"
    /\ UNCHANGED <<defs_arg, family, doc, ext, extensions_exist, error, base0, ext0>>

\* line 336
KvGenerate ==
    /\ family = "kv"
    /\ pc = "generate"
    /\ log' = log \o OpenAndWrite(kv_py_output)
    /\ pc' = IF extensions_exist["kv"] THEN "generate_ext" ELSE "format"
    /\ UNCHANGED <<defs_arg, family, doc, ext, extensions_exist, error, base0, ext0>>

\* lines 337-340
KvGenerateExt ==
    /\ family = "kv"
    /\ pc = "generate_ext"
    /\ log' = log \o OpenAndWrite(kv_py_extensions) \o <<ruff_format(kv_py_extensions)>>
    /\ pc' = "format"
    /\ UNCHANGED <<defs_arg, family, doc, ext, extensions_exist, error, base0, ext0>>

\* faulty variant of KvFormat: the Kconfig fragment is passed to clang-format too
KvFormat_FormatsKconfig ==
    /\ family = "kv"
    /\ pc = "format"
    /\ log' = log \o <<clang_format(kv_kconfig_output), clang_format(kv_defs_output),
                       ruff_format(kv_py_output)>>
    /\ pc' = "load"
    /\ family' = "rpc"
    /\ ReturnFromGenerator
    /\ UNCHANGED <<defs_arg, extensions_exist, error>>

\* lines 342-343, then do_run enters rpcgen()
KvFormat ==
    /\ family = "kv"
    /\ pc = "format"
    /\ log' = log \o <<clang_format(kv_defs_output), ruff_format(kv_py_output)>>
    /\ pc' = "load"
    /\ family' = "rpc"
    /\ ReturnFromGenerator
    /\ UNCHANGED <<defs_arg, extensions_exist, error>>

(***************************************************************************)
(* rpcgen                                                                  *)
(***************************************************************************)
RpcLoad == LoadDocs("rpc")

RpcCheckExt == CheckExt("rpc")

RpcMerge == Merge("rpc")

RpcPostfixFields(d) == LoopFields(_array_postfix, d, "fields")

\* lines 387-389, on the document d
RpcArraySuffixStructs(d) == Put(d, "structs", ForValues(RpcPostfixFields, d["structs"]))

\* lines 387-389
RpcNormalizeStructs ==
    /\ family = "rpc"
    /\ pc = "normalize_structs"
    /\ doc' = RpcArraySuffixStructs(doc)
    /\ pc' = "normalize_commands"
    /\ UNCHANGED <<defs_arg, family, ext, extensions_exist, log, error, base0, ext0>>

\* d["request_params"] or d["response_params"] raises KeyError
RpcParamsMissing(d) == ~Has(d, "request_params") \/ ~Has(d, "response_params")

\* lines 391-394, for one command
RpcPostfixParams(d) ==
    LoopFields(_array_postfix, LoopFields(_array_postfix, d, "request_params"),
               "response_params")

\* lines 390-394, on the document d
RpcArraySuffixCommands(d) == Put(d, "commands", ForValues(RpcPostfixParams, d["commands"]))

\* d["request_params"] or d["response_params"] raises KeyError in the loops
\* of lines 390-394
RpcArraySuffixRaises(d) == \E c \in Values(d["commands"]) : RpcParamsMissing(c)

\* the array suffix pass of rpcgen, lines 387-394
RpcArraySuffixPass(d) == RpcArraySuffixCommands(RpcArraySuffixStructs(d))

\* lines 390-394
RpcNormalizeCommands ==
    /\ family = "rpc"
    /\ pc = "normalize_commands"
    /\ IF RpcArraySuffixRaises(doc)
       THEN Raise("KeyError") /\ UNCHANGED doc
       ELSE /\ doc' = RpcArraySuffixCommands(doc)
            /\ pc' = "enum_replace"
            /\ UNCHANGED error
    /\ UNCHANGED <<defs_arg, family, ext, extensions_exist, log, base0, ext0>>

\* field["type"].removeprefix("enum ")
EnumName(t) == IF Len(t) > 1 THEN t[2] ELSE t[1]

\* rpc_defs["enums"][n] raises KeyError for some field of d[key]
EnumLookupRaises(enums, d, key) ==
    \E i \in 1..Len(d[key]) :
        /\ IsEnumType(d[key][i]["type"])
        /\ EnumName(d[key][i]["type"]) \notin DOMAIN enums

\* faulty variant of enum_type_replace: the prefix is removed but the enum is not looked
\* up, the field keeps the enum's name as its type
enum_type_replace_KeepsName(enums, d, key, i) ==
    LET field == d[key][i]
    IN IF IsEnumType(field["type"])
       THEN Put(d, key, [d[key] EXCEPT ![i] = Put(field, "type", <<EnumName(field["type"])>>)])
       ELSE d

\* faulty variant of enum_type_replace: the field is rebuilt from its name and the
\* underlying type, its other keys are lost
enum_type_replace_RebuildsField(enums, d, key, i) ==
    LET field == d[key][i]
    IN IF IsEnumType(field["type"])
       THEN Put(d, key,
                [d[key] EXCEPT ![i] = [name |-> field["name"],
                                       type |-> enums[EnumName(field["type"])]["type"]]])
       ELSE d

\* enum_type_replace(field), field being d[key][i]
enum_type_replace(enums, d, key, i) ==
    LET field == d[key][i]
    IN IF IsEnumType(field["type"])
       THEN Put(d, key,
                [d[key] EXCEPT ![i] = Put(field, "type", enums[EnumName(field["type"])]["type"])])
       ELSE d

\* the loop of enum_type_replace over d[key]
RpcEraseEnums(enums, d, key) ==
    LET Step(x, k, i) == enum_type_replace(enums, x, k, i)
    IN LoopFields(Step, d, key)

\* a KeyError in the loops of lines 401-409: a parameter list or an enum
\* is missing
RpcEnumErasureRaises(d) ==
    \/ \E s \in Values(d["structs"]) : EnumLookupRaises(d["enums"], s, "fields")
    \/ \E c \in Values(d["commands"]) :
          \/ RpcParamsMissing(c)
          \/ EnumLookupRaises(d["enums"], c, "request_params")
          \/ EnumLookupRaises(d["enums"], c, "response_params")

\* the enum erasure pass of rpcgen, lines 401-409
RpcEnumErasurePass(d) ==
    Put(Put(d, "structs",
            [n \in DOMAIN d["structs"] |->
                RpcEraseEnums(d["enums"], d["structs"][n], "fields")]),
        "commands",
        [k \in DOMAIN d["commands"] |->
            RpcEraseEnums(d["enums"],
                          RpcEraseEnums(d["enums"], d["commands"][k], "request_params"),
                          "response_params")])

\* lines 401-409; a KeyError of the enum lookup ends the run
RpcEnumReplace ==
    /\ family = "rpc"
    /\ pc = "enum_replace"
    /\ IF RpcEnumErasureRaises(doc)
       THEN Raise("KeyError") /\ UNCHANGED doc
       ELSE /\ doc' = RpcEnumErasurePass(doc)
            /\ pc' = "py_types"
            /\ UNCHANGED error
    /\ UNCHANGED <<defs_arg, family, ext, extensions_exist, log, base0, ext0>>

\* lines 414-415, for the struct field s[key][i]
RpcStructPyField(s, key, i) ==
    SetPyType(Put(s, key, [s[key] EXCEPT ![i] = Put(@, "py_name", <<@["name"]>>)]),
              key, i, FALSE)

\* lines 417-418, for one enum
RpcEnumPyNames(e) ==
    Put(e, "values",
        [i \in 1..Len(e["values"]) |->
            Put(e["values"][i], "py_name", <<e["values"][i]["name"]>>)])

\* line 422, for the parameter c[sub][i]
RpcParamPyField(c, sub, i) == SetPyType(c, sub, i, FALSE)

\* lines 420-422, for one command
RpcCommandPyTypes(c) ==
    LoopFields(RpcParamPyField, LoopFields(RpcParamPyField, c, "request_params"),
               "response_params")

\* lines 411-422; a KeyError of _py_type ends the run
RpcPyTypes ==
    /\ family = "rpc"
    /\ pc = "py_types"
    /\ IF \/ \E s \in Values(doc["structs"]) : AnyPyTypeRaises(s, "fields")
          \/ \E c \in Values(doc["commands"]) :
                AnyPyTypeRaises(c, "request_params") \/ AnyPyTypeRaises(c, "response_params")
       THEN Raise("KeyError") /\ UNCHANGED doc
       ELSE /\ doc' =
                [structs |-> ForValues(LAMBDA s : LoopFields(RpcStructPyField, s, "fields"),
                                       doc["structs"]),
                 enums |-> ForValues(RpcEnumPyNames, doc["enums"]),
                 commands |-> ForValues(RpcCommandPyTypes, doc["commands"])]
            /\ pc' = "write_outputs"
            /\ UNCHANGED error
    /\ UNCHANGED <<defs_arg, family, ext, extensions_exist, log, base0, ext0>>

\* lines 424-440
RpcWriteOutputs ==
    /\ family = "rpc"
    /\ pc = "write_outputs"
    /\ log' = log \o OpenAndWrite(rpc_kconfig_output) \o OpenAndWrite(rpc_commands_output)
                  \o OpenAndWrite(rpc_runner_output) \o OpenAndWrite(rpc_defs_output)
    /\ pc' = "generate"
    /\ UNCHANGED <<defs_arg, family, doc, ext, extensions_exist, error, base0, ext0>>

\* lines 443-448: any([e.get("extension", False) == extensions for e in enums.values()])
any_enums(enums, extensions) ==
    \E e \in Values(enums) : Get(e, "extension", FALSE) = extensions

\* rpc_defs_py_template.render(..., extensions=extensions, has_enums=any_enums)
Render(file, extensions, has_enums) ==
    [op |-> "render", file |-> file, extensions |-> extensions, has_enums |-> has_enums]

\* generate(output, extensions) of rpcgen, lines 442-458
generate(d, output, extensions) ==
    <<Opened(output), Render(output, extensions, any_enums(d["enums"], extensions)),
      Written(output)>>

\* line 460
RpcGenerate ==
    /\ family = "rpc"
    /\ pc = "generate"
    /\ log' = log \o generate(doc, rpc_defs_py_output, FALSE)
    /\ pc' = IF extensions_exist["rpc"] THEN "generate_ext" ELSE "format"
    /\ UNCHANGED <<defs_arg, family, doc, ext, extensions_exist, error, base0, ext0>>

\* lines 461-464
RpcGenerateExt ==
    /\ family = "rpc"
    /\ pc = "generate_ext"
    /\ log' = log \o generate(doc, rpc_py_extensions, TRUE)
                  \o <<ruff_format(rpc_py_extensions)>>
    /\ pc' = "format"
    /\ UNCHANGED <<defs_arg, family, doc, ext, extensions_exist, error, base0, ext0>>

\* lines 466-469, then rpcgen returns and do_run prints its last line
RpcFormat ==
    /\ family = "rpc"
    /\ pc = "format"
    /\ log' = log \o <<clang_format(rpc_defs_output), clang_format(rpc_commands_output),
                       clang_format(rpc_runner_output), ruff_format(rpc_defs_py_output)>>
    /\ pc' = "done"
    /\ ReturnFromGenerator
    /\ UNCHANGED <<defs_arg, family, extensions_exist, error>>

Next ==
    \/ Start
    \/ TdfLoad \/ TdfCheckExt \/ TdfMerge
    \/ TdfNormalizeStructs \/ TdfNormalizeDefs \/ TdfWriteHeader
    \/ TdfAnnotate \/ TdfGenerate \/ TdfGenerateExt \/ TdfFormat
    \/ KvLoad \/ KvLoadList \/ KvCheckExt \/ KvMerge \/ KvFlags \/ KvWriteKconfig \/ KvOpenHeader
    \/ KvNormalizeStructs \/ KvNormalizeDefs \/ KvWriteHeader \/ KvPyTypes
    \/ KvGenerate \/ KvGenerateExt \/ KvFormat
    \/ RpcLoad \/ RpcCheckExt \/ RpcMerge \/ RpcNormalizeStructs \/ RpcNormalizeCommands
    \/ RpcEnumReplace \/ RpcPyTypes \/ RpcWriteOutputs
    \/ RpcGenerate \/ RpcGenerateExt \/ RpcFormat

Spec == Init /\ [][Next]_vars


(***************************************************************************)
(* Properties                                                              *)
(***************************************************************************)
\* key of the ID-keyed map of the running family
Key == EntriesKey(family)

\* the thresholds as the ID range contract states them
ContractThreshold == IF family = "tdf" THEN 1024 ELSE 32768

\* the merged document of the running family has just been produced
Merged == family \in Families /\ pc = AfterMerge(family) /\ ~IsList(doc[Key])

\* ... from a base document and an extension document
MergedWithExt == Merged /\ ext # NoDoc

\* the run is in, or was ended by, the assertions of the extension block
StoppedAtAssertions ==
    pc = "check_ext" \/ (pc = "aborted" /\ error = "AssertionError")

ExtLoaded == family \in Families /\ ext0 # NoDoc

IsTagged(entry) == Has(entry, "extension") /\ entry["extension"] = TRUE

\* C1: in every family an extension document with an ID at or below the
\* family threshold (1024 for TDF, 32768 for KV and RPC; equality included)
\* never gets past the merge assertions, and in every merged document each
\* extension-tagged ID is strictly greater than the threshold.
C1_ExtIdsAboveThreshold ==
    /\ (ExtLoaded /\ \E id \in DOMAIN ext0[Key] : ParseInt(id) <= ContractThreshold)
          => StoppedAtAssertions
    /\ Merged =>
          \A id \in DOMAIN doc[Key] :
              IsTagged(doc[Key][id]) => ParseInt(id) > ContractThreshold

\* C1 witness: a KV run aborted by an extension ID exactly at the threshold,
\* the only failing assertion of that document.
C1_Witness ==
    /\ pc = "aborted" /\ error = "AssertionError" /\ family = "kv"
    /\ \E id \in DOMAIN ext0[Key] : ParseInt(id) = 32768
    /\ \A id \in DOMAIN ext0[Key] : ParseInt(id) >= 32768
    /\ DOMAIN ext0["structs"] \cap DOMAIN base0["structs"] = {}

\* C2: in every family an extension document with a struct name already in
\* the base structs map never gets past the merge assertions, and the merged
\* structs map holds every base and every extension struct under its own
\* name (no name is shared, none is shadowed).
C2_NoStructNameCollision ==
    /\ (ExtLoaded /\ DOMAIN ext0["structs"] \cap DOMAIN base0["structs"] # {})
          => StoppedAtAssertions
    /\ MergedWithExt =>
          Cardinality(DOMAIN doc["structs"]) =
              Cardinality(DOMAIN base0["structs"]) + Cardinality(DOMAIN ext0["structs"])

\* C2 witness: an RPC run aborted by a struct name collision alone (every
\* extension ID is in range).
C2_Witness ==
    /\ pc = "aborted" /\ error = "AssertionError" /\ family = "rpc"
    /\ \A id \in DOMAIN ext0[Key] : ParseInt(id) > 32768
    /\ DOMAIN ext0["structs"] \cap DOMAIN base0["structs"] # {}

\* the structs map and the ID-keyed map hold exactly the base and extension keys
MergedKeysAreUnion ==
    /\ DOMAIN doc["structs"] = DOMAIN base0["structs"] \cup DOMAIN ext0["structs"]
    /\ DOMAIN doc[Key] = DOMAIN base0[Key] \cup DOMAIN ext0[Key]

\* every extension entry is in the merged document, tagged
ExtEntriesMerged ==
    /\ \A n \in DOMAIN ext0["structs"] :
          doc["structs"][n] = Put(ext0["structs"][n], "extension", TRUE)
    /\ \A id \in DOMAIN ext0[Key] : doc[Key][id] = Put(ext0[Key][id], "extension", TRUE)

BaseStructsKept ==
    \A n \in DOMAIN base0["structs"] : doc["structs"][n] = base0["structs"][n]

\* C3 as stated: the merged maps are the union of base and extension entries
\* and every base definition, command and struct is present and unmodified.
C3_Original ==
    MergedWithExt =>
        /\ MergedKeysAreUnion
        /\ BaseStructsKept
        /\ \A id \in DOMAIN base0[Key] : doc[Key][id] = base0[Key][id]

\* C3 (amended): the merged maps hold exactly the base and extension keys,
\* every extension entry is present (tagged), every base struct is present
\* and unmodified, and every base definition/command whose ID is not also an
\* extension ID is present and unmodified; a base ID that equals an extension
\* ID (it is then above the threshold, which base IDs are not checked
\* against) maps to the extension entry.
C3_MergeIsUnion ==
    MergedWithExt =>
        /\ MergedKeysAreUnion
        /\ ExtEntriesMerged
        /\ BaseStructsKept
        /\ \A id \in DOMAIN base0[Key] :
              IF id \in DOMAIN ext0[Key]
              THEN ParseInt(id) > ContractThreshold
              ELSE doc[Key][id] = base0[Key][id]

\* C3 witness: a merge of non-empty base and extension maps in which a base
\* ID is also an extension ID.
C3_Witness ==
    /\ MergedWithExt
    /\ DOMAIN base0["structs"] # {} /\ DOMAIN ext0["structs"] # {}
    /\ DOMAIN base0[Key] \cap DOMAIN ext0[Key] # {}
    /\ DOMAIN base0[Key] \ DOMAIN ext0[Key] # {}

\* C4 as stated: a base document with an ID above the threshold aborts
\* generation, so no merged document has such a base ID.
C4_Original ==
    Merged => \A id \in DOMAIN base0[Key] : ParseInt(id) <= ContractThreshold

\* C4 (amended): only extension IDs are range-checked.  The merge assertions
\* fail only for an extension ID at or below the threshold or an extension
\* struct name present in the base; the IDs of the base document are never
\* checked, so a base ID above the threshold does not abort generation.
C4_OnlyExtensionIsChecked ==
    (family \in Families /\ error = "AssertionError") =>
        /\ ext0 # NoDoc
        /\ \/ \E id \in DOMAIN ext0[Key] : ParseInt(id) <= ContractThreshold
           \/ DOMAIN ext0["structs"] \cap DOMAIN base0["structs"] # {}

\* C4 witness: a document with a base ID above the threshold passed the
\* merge assertions and was merged.
C4_Witness ==
    /\ MergedWithExt
    /\ \E id \in DOMAIN base0[Key] : ParseInt(id) > ContractThreshold

FilesTouched == {log[i]["file"] : i \in DOMAIN log}

\* C5 as stated: when a merge assertion fails, the run has written no
\* output file at all.
C5_Original ==
    error = "AssertionError" => log = << >>

\* C5 (amended): when a merge assertion fails the run ends there, and no
\* output file of the failing family has been opened or written; the files
\* of the families generated before it have been written and remain.
C5_NoOutputOfFailingFamily ==
    error = "AssertionError" =>
        /\ pc = "aborted"
        /\ FilesTouched \cap FilesOf(family) = {}
        /\ \A f \in Families :
              (FilesTouched \cap FilesOf(f) # {}) =>
                  (f = "tdf" /\ family # "tdf") \/ (f = "kv" /\ family = "rpc")

\* C5 witness: the RPC merge assertions failed after TDF and KV output was
\* written.
C5_Witness ==
    /\ error = "AssertionError" /\ family = "rpc"
    /\ tdf_output \in FilesTouched /\ kv_defs_output \in FilesTouched


\* the documents the running generator was given, as one map per kind
InputStructs ==
    IF ext0 = NoDoc THEN base0["structs"]
    ELSE Update(base0["structs"], ext0["structs"])

InputEntries == IF ext0 = NoDoc THEN base0[Key] ELSE Update(base0[Key], ext0[Key])

\* the field lists an owner (struct, definition, command) carries
ListKeys(owner) == {"fields", "request_params", "response_params"} \cap DOMAIN owner

FieldsOf(owner) == {owner[k][i] : <<k, i>> \in {x \in ListKeys(owner) \X (1..4) : x[2] <= Len(owner[x[1]])}}

InputFields ==
    UNION {FieldsOf(o) : o \in Values(InputStructs) \cup Values(InputEntries)}

ScalarKeywords ==
    {"uint8_t", "uint16_t", "uint32_t", "uint64_t", "int8_t", "int16_t", "int32_t",
     "int64_t", "char", "float"}

\* a type that is not a scalar keyword, nor a struct of the merged structs
\* map, nor (RPC) an enum of the enums map
UnresolvedType(t) ==
    CASE t[1] = "struct" -> t[2] \notin DOMAIN InputStructs
      [] t[1] = "enum" -> family # "rpc" \/ t[2] \notin DOMAIN base0["enums"]
      [] OTHER -> t[1] \notin ScalarKeywords

\* the generator of the running family has produced all its files
GenerationCompleted == family \in Families /\ pc = "format"

\* C6 as stated: no run whose documents hold a field of unknown scalar type,
\* of a struct type absent from the merged structs map or (RPC) of an enum
\* type absent from the enums map completes generation of that family.
C6_Original ==
    GenerationCompleted => \A f \in InputFields : ~UnresolvedType(f["type"])

\* C6, the part the code keeps: an unknown scalar keyword, and in RPC a
\* reference to an enum absent from the enums map, never completes.
C6_UnknownScalarOrEnumAborts ==
    GenerationCompleted =>
        \A f \in InputFields : f["type"][1] # "struct" => ~UnresolvedType(f["type"])

\* C7: with no extension document (no extension directory, or the family's
\* file absent from it) the merged document is the base document, nothing is
\* tagged, and the family's generation is not stopped by the merge: such a
\* run only ends early on a malformed base document.
C7_NoExtensionIsIdentity ==
    /\ (Merged /\ ext = NoDoc) =>
          /\ doc = base0
          /\ ~extensions_exist[family]
          /\ \A o \in Values(doc["structs"]) \cup Values(doc[Key]) : ~Has(o, "extension")
    /\ (family \in Families /\ pc = "aborted" /\ ~extensions_exist[family]) =>
          \/ error = "AttributeError" /\ IsList(base0[Key])
          \/ /\ error = "KeyError"
             /\ \/ \E f \in InputFields : UnresolvedType(f["type"])
                \/ \E c \in Values(InputEntries) :
                      family = "rpc" /\ Cardinality(ListKeys(c)) < 2

\* C7 witness: a run given an extension directory that holds only the TDF
\* file has finished: KV was generated from its base document alone.
C7_Witness ==
    /\ pc = "done" /\ defs_arg = "dir"
    /\ extensions_exist["tdf"] /\ ~extensions_exist["kv"]

\* C8: in every merged document a struct, definition or command carries
\* extension = true exactly when the extension document supplied it; what
\* the base document supplied is as loaded, without the tag.
C8_TaggedIffFromExtension ==
    Merged =>
        /\ \A n \in DOMAIN doc["structs"] :
              /\ IsTagged(doc["structs"][n]) <=> (ext0 # NoDoc /\ n \in DOMAIN ext0["structs"])
              /\ ~IsTagged(doc["structs"][n]) => doc["structs"][n] = base0["structs"][n]
        /\ \A id \in DOMAIN doc[Key] :
              /\ IsTagged(doc[Key][id]) <=> (ext0 # NoDoc /\ id \in DOMAIN ext0[Key])
              /\ ~IsTagged(doc[Key][id]) => doc[Key][id] = base0[Key][id]

\* C8 witness: a merged document with base and extension structs and entries.
C8_Witness ==
    /\ MergedWithExt
    /\ \E n \in DOMAIN doc["structs"] : IsTagged(doc["structs"][n])
    /\ \E n \in DOMAIN doc["structs"] : ~IsTagged(doc["structs"][n])
    /\ \E id \in DOMAIN doc[Key] : IsTagged(doc[Key][id])
    /\ \E id \in DOMAIN doc[Key] : ~IsTagged(doc[Key][id])

\* the array suffix pass of the running family has visited every field
Normalized ==
    \/ family = "tdf" /\ pc \in {"write_header", "annotate", "generate", "generate_ext", "format"}
    \/ family = "kv" /\ pc \in {"write_header", "py_types", "generate", "generate_ext", "format"}
    \/ family = "rpc" /\ pc \in {"enum_replace", "py_types", "write_outputs", "generate",
                                "generate_ext", "format"}

Owners == Values(doc["structs"]) \cup Values(doc[Key])

CharValue(c) ==
    CASE c = "0" -> 0 [] c = "1" -> 1 [] c = "2" -> 2 [] c = "3" -> 3 [] c = "4" -> 4
      [] c = "5" -> 5 [] c = "6" -> 6 [] c = "7" -> 7 [] c = "8" -> 8 [] c = "9" -> 9
      [] OTHER -> -1

\* the number a string of decimal digits denotes (-1 if it is not one)
RECURSIVE DecimalValue(_)
DecimalValue(chars) ==
    IF Len(chars) = 0 THEN -1
    ELSE IF CharValue(chars[Len(chars)]) < 0 THEN -1
    ELSE IF Len(chars) = 1 THEN CharValue(chars[1])
    ELSE LET front == DecimalValue(SubSeq(chars, 1, Len(chars) - 1))
         IN IF front < 0 THEN -1 ELSE 10 * front + CharValue(chars[Len(chars)])

\* the suffix the specification gives a field
SuffixAsSpecified(f) ==
    /\ Has(f, "array")
    /\ IF ~Has(f, "num") THEN f["array"] = << >>
       ELSE IF f["num"] = 0 THEN f["array"] = <<"[", "]">>
       ELSE /\ Len(f["array"]) >= 3
            /\ f["array"][1] = "[" /\ f["array"][Len(f["array"])] = "]"
            /\ DecimalValue(SubSeq(f["array"], 2, Len(f["array"]) - 1)) = f["num"]

\* C9: once a family's fields are normalised, every field of every struct,
\* definition and request/response list has the suffix "" when num is
\* absent, "[]" when num = 0 and "[k]" (k in decimal) when num = k > 0.
C9_ArraySuffix ==
    Normalized => \A o \in Owners : \A f \in FieldsOf(o) : SuffixAsSpecified(f)

\* C9 witness: a normalised RPC document with a response field of fixed
\* count k > 0, a struct field with a two-digit count and a flexible field.
C9_Witness ==
    /\ Normalized /\ family = "rpc"
    /\ \E c \in Values(doc["commands"]) : \E i \in DOMAIN c["response_params"] :
          Has(c["response_params"][i], "num") /\ c["response_params"][i]["num"] > 0
    /\ \E o \in Owners : \E f \in FieldsOf(o) : Has(f, "num") /\ f["num"] >= 10
    /\ \E o \in Owners : \E f \in FieldsOf(o) : Has(f, "num") /\ f["num"] = 0

IsFlexible(x) == Has(x, "flexible") /\ x["flexible"] = TRUE

\* C10 as stated: in every family a field with num = 0 is itself marked
\* flexible and so is its owner.
C10_Original ==
    Normalized =>
        \A o \in Owners : \A f \in FieldsOf(o) :
            (Has(f, "num") /\ f["num"] = 0) => IsFlexible(o) /\ IsFlexible(f)

\* C10 (amended): in every family the owner of a field with num = 0 has
\* flexible = true after normalisation; the field itself is marked flexible
\* in KV only (kvgen's own array_postfix), and carries no flexible mark in
\* TDF and RPC (the shared _array_postfix).
C10_OwnerFlexible ==
    Normalized =>
        \A o \in Owners : \A f \in FieldsOf(o) :
            (Has(f, "num") /\ f["num"] = 0) =>
                /\ IsFlexible(o)
                /\ IF family = "kv" THEN IsFlexible(f) ELSE ~Has(f, "flexible")

\* C10 witness: a normalised TDF document with a num = 0 field whose owner
\* is flexible and which has no flexible mark of its own.
C10_Witness ==
    /\ Normalized /\ family = "tdf"
    /\ \E o \in Values(doc["definitions"]) : \E f \in FieldsOf(o) :
          Has(f, "num") /\ f["num"] = 0 /\ IsFlexible(o) /\ ~Has(f, "flexible")

\* the owner has a variable-length array of its own
HasFlexibleArray(o) == \E f \in FieldsOf(o) : Has(f, "num") /\ f["num"] = 0

\* the struct `name` of the document is flexible: it has a variable-length
\* array, or embeds (within `depth` levels) a struct that is flexible
RECURSIVE StructIsFlexible(_, _)
StructIsFlexible(name, depth) ==
    /\ name \in DOMAIN doc["structs"]
    /\ \/ HasFlexibleArray(doc["structs"][name])
       \/ /\ depth > 0
          /\ \E f \in FieldsOf(doc["structs"][name]) :
                IsStructRef(f["type"]) /\ StructIsFlexible(StructName(f["type"]), depth - 1)

EmbedsFlexibleStruct(o) ==
    \E f \in FieldsOf(o) :
        /\ IsStructRef(f["type"])
        /\ StructIsFlexible(StructName(f["type"]), Cardinality(DOMAIN doc["structs"]))

\* C11 as stated: after normalisation every definition, command and struct
\* with a field of type `struct S`, S flexible (by an array of its own or by
\* embedding a flexible struct, transitively), is flagged flexible.
C11_Original ==
    Normalized => \A o \in Owners : EmbedsFlexibleStruct(o) => IsFlexible(o)

\* C11, the part the code keeps: a KV definition is flagged flexible exactly
\* when it has a variable-length array of its own or a field whose struct
\* has one; the struct is then named in the field's flexible_type.
C11_KvDefinitionOneLevel ==
    (Normalized /\ family = "kv") =>
        \A d \in Values(doc["definitions"]) :
            /\ IsFlexible(d) <=>
                  \/ HasFlexibleArray(d)
                  \/ \E f \in FieldsOf(d) :
                        /\ IsStructRef(f["type"])
                        /\ HasFlexibleArray(doc["structs"][StructName(f["type"])])
            /\ \A f \in FieldsOf(d) :
                  Has(f, "flexible_type") <=>
                      /\ IsStructRef(f["type"])
                      /\ HasFlexibleArray(doc["structs"][StructName(f["type"])])

\* the enum erasure pass of rpcgen has run
Erased ==
    family = "rpc" /\ pc \in {"py_types", "write_outputs", "generate", "generate_ext", "format"}

\* field by field, `out` has the types of `in` with every `enum E` replaced
\* by the type the enums map declares for E
TypesErased(in, out) ==
    \A k \in ListKeys(in) : \A i \in 1..Len(in[k]) :
        out[k][i]["type"] =
            IF IsEnumType(in[k][i]["type"])
            THEN base0["enums"][in[k][i]["type"][2]]["type"]
            ELSE in[k][i]["type"]

\* C12: after the erasure pass of rpcgen every field that was typed `enum E`
\* (in a struct, a request or a response) has E's declared underlying type,
\* every other field has kept its type, and no field type names an enum.
C12_EnumsErased ==
    Erased =>
        /\ \A n \in DOMAIN doc["structs"] : TypesErased(InputStructs[n], doc["structs"][n])
        /\ \A id \in DOMAIN doc["commands"] : TypesErased(InputEntries[id], doc["commands"][id])
        /\ \A o \in Owners : \A f \in FieldsOf(o) : ~IsEnumType(f["type"])

\* C12 witness: command 5 with `status` of type enum Result in its response
\* (Result declared uint8_t), an enum-typed request parameter and an
\* enum-typed struct field, after the pass: `status` is uint8_t.
C12_Witness ==
    /\ Erased
    /\ Has(InputEntries, Digits(5))
    /\ InputEntries[Digits(5)]["response_params"][1] = Fld("status", <<"enum", "Result">>)
    /\ doc["commands"][Digits(5)]["response_params"][1]["type"] = <<"uint8_t">>
    /\ IsEnumType(InputEntries[Digits(5)]["request_params"][1]["type"])
    /\ \E s \in Values(InputStructs) : \E f \in FieldsOf(s) : IsEnumType(f["type"])

\* the flags pass of kvgen has run
FlagsDerived ==
    family = "kv" /\ pc \in {"write_kconfig", "open_header", "normalize_structs",
                            "normalize_defs", "write_header", "py_types", "generate",
                            "generate_ext", "format"}

FlagAttributes == {"reflect", "write_only", "read_only"}

FlagConstant(a) ==
    CASE a = "reflect" -> "KV_FLAGS_REFLECT"
      [] a = "write_only" -> "KV_FLAGS_WRITE_ONLY"
      [] a = "read_only" -> "KV_FLAGS_READ_ONLY"

\* the flag attributes a definition sets
FlagsSet(d) == {a \in FlagAttributes : Has(d, a) /\ d[a] = TRUE}

\* `value` is the text c1 | c2 | ... of exactly the constants of `set`, each once
IsOrOf(value, set) ==
    /\ Has(value, "str")
    /\ Len(value["str"]) = 2 * Cardinality(set) - 1
    /\ \A i \in 1..Len(value["str"]) : (i % 2 = 0) => value["str"][i] = " | "
    /\ {value["str"][i] : i \in {j \in 1..Len(value["str"]) : j % 2 = 1}}
          = {FlagConstant(a) : a \in set}

\* C13: for every KV definition the derived flags value is the integer 0
\* when none of reflect / write_only / read_only is set, and otherwise the
\* OR of exactly the constants of the set flags, each appearing once.
C13_KvFlags ==
    FlagsDerived =>
        \A d \in Values(doc["definitions"]) :
            IF FlagsSet(d) = {} THEN d["flags"] = PyInt(0)
            ELSE IsOrOf(d["flags"], FlagsSet(d))

\* C13 witness: the extension key 40000 with only reflect set has been
\* merged and its flags are KV_FLAGS_REFLECT.
C13_Witness ==
    /\ FlagsDerived
    /\ ext0 # NoDoc
    /\ 40000 \in DOMAIN doc["definitions"]
    /\ FlagsSet(doc["definitions"][40000]) = {"reflect"}
    /\ IsTagged(doc["definitions"][40000])
    /\ doc["definitions"][40000]["flags"] = PyStr(<<"KV_FLAGS_REFLECT">>)

\* C14: after normalisation every TDF definition has only_flexible = true
\* exactly when it has one field and that field is a variable-length array
\* (num = 0); otherwise only_flexible is false.
C14_OnlyFlexible ==
    (Normalized /\ family = "tdf") =>
        \A d \in Values(doc["definitions"]) :
            /\ d["only_flexible"] \in BOOLEAN
            /\ d["only_flexible"] <=>
                  /\ Len(d["fields"]) = 1
                  /\ Has(d["fields"][1], "num")
                  /\ d["fields"][1]["num"] = 0

\* C14 witness: a normalised TDF document with a definition whose single
\* field is a variable-length array (only_flexible) and a definition with
\* other fields (not only_flexible).
C14_Witness ==
    /\ Normalized /\ family = "tdf"
    /\ \E d \in Values(doc["definitions"]) :
          d["only_flexible"] /\ Len(d["fields"]) = 1 /\ d["fields"][1]["num"] = 0
    /\ \E d \in Values(doc["definitions"]) : ~d["only_flexible"]

\* some RPC command of the loaded documents lacks one of its parameter lists
CommandLacksParams ==
    family = "rpc" /\ base0 # NoDoc /\ \E c \in Values(InputEntries) : RpcParamsMissing(c)

\* C15 as stated: an RPC command without request_params or without
\* response_params goes through the array suffix and enum erasure passes
\* without error: a run whose only irregularity is such a command does not
\* abort.
C15_Original ==
    (CommandLacksParams /\ \A f \in InputFields : ~UnresolvedType(f["type"]))
        => pc # "aborted"

\* C15, what the code does: such a command ends the run with a KeyError in
\* the array suffix pass; no RPC output file is written.
C15_MissingParamsAbort ==
    CommandLacksParams =>
        /\ pc \in {"normalize_structs", "normalize_commands", "aborted"}
        /\ pc = "aborted" => error = "KeyError"
        /\ FilesTouched \cap FilesOf("rpc") = {}

\* the KV base document gives its definitions as a list
KvDefinitionsAreList ==
    family = "kv" /\ base0 # NoDoc /\ IsList(base0["definitions"])

\* C16 as stated: KV generation succeeds when the definitions collection is
\* a list of definitions just as when it is a map keyed by ID: a run given
\* such a list does not abort in kvgen.
C16_Original ==
    KvDefinitionsAreList => pc # "aborted"

\* C16, what the code does: the definitions are read with the methods of a
\* map (.items(), .update()); a list ends the run with an AttributeError
\* before any KV output file is opened.
C16_ListAborts ==
    KvDefinitionsAreList =>
        /\ pc \in {"check_ext", "merge", "flags", "aborted"}
        /\ pc = "aborted" => error = "AttributeError"
        /\ FilesTouched \cap FilesOf("kv") = {}

\* the host-binding module of a family that holds all its types
BaseModule(f) ==
    CASE f = "tdf" -> tdf_definitions_output
      [] f = "kv" -> kv_py_output
      [] f = "rpc" -> rpc_defs_py_output

\* the extension-only host-binding module of a family
ExtensionModule(f) ==
    CASE f = "tdf" -> tdf_py_extensions
      [] f = "kv" -> kv_py_extensions
      [] f = "rpc" -> rpc_py_extensions

WasWritten(file) == \E i \in DOMAIN log : log[i] = Written(file)

\* C17: a family's extension-only host-binding module is written if and
\* only if an extension document of that family was loaded: never without
\* one, and always, by the time the family's generator has produced its
\* files, with one.  The base host-binding module of a family is written by
\* then in either case, so a finished run has written all three.
C17_ExtensionModuleIffExtension ==
    /\ (family \in Families /\ pc # "done" /\ WasWritten(ExtensionModule(family)))
          => ext0 # NoDoc
    /\ GenerationCompleted =>
          /\ WasWritten(BaseModule(family))
          /\ WasWritten(ExtensionModule(family)) <=> ext0 # NoDoc
    /\ pc = "done" =>
          \A f \in Families :
              /\ WasWritten(BaseModule(f))
              /\ WasWritten(ExtensionModule(f)) <=> extensions_exist[f]

\* C17 witness: a finished run that had an extension document for RPC but
\* none for KV: the RPC extension-only module was written, the KV one was
\* not, all base modules were.
C17_Witness ==
    /\ pc = "done"
    /\ extensions_exist["rpc"] /\ ~extensions_exist["kv"]
    /\ WasWritten(rpc_py_extensions) /\ ~WasWritten(kv_py_extensions)
    /\ \A f \in Families : WasWritten(BaseModule(f))

\* the run was ended by a schema or type error: a failed merge assertion
\* (ID threshold, struct name collision) or a failed type lookup (unknown
\* scalar keyword, struct or enum)
SchemaOrTypeError ==
    family \in Families /\ pc = "aborted" /\ error \in {"AssertionError", "KeyError"}

\* C19 as stated: within each family every schema or type error is raised
\* before any output file of that family is opened for writing, so a run
\* that fails on such an error has touched no file of the failing family.
C19_Original ==
    SchemaOrTypeError => FilesTouched \cap FilesOf(family) = {}

\* C19, what the code does: the merge assertions in every family, and every
\* type lookup of rpcgen, precede the family's first output; the type
\* lookups of tdfgen come after the C header is written, those of kvgen
\* after the Kconfig fragment is written and the C header is opened.
C19_ErrorsAndFirstOutputs ==
    SchemaOrTypeError =>
        FilesTouched \cap FilesOf(family) =
            IF error = "AssertionError" \/ family = "rpc" THEN {}
            ELSE IF family = "tdf" THEN {tdf_output}
            ELSE {kv_kconfig_output, kv_defs_output}

\* the order in which do_run enters the generators
FamilyOrder == {<<"none", "tdf">>, <<"tdf", "kv">>, <<"kv", "rpc">>}

\* what a step adds to the record of file system effects
NewEffects == {log'[i] : i \in (Len(log) + 1)..Len(log')}

\* C20: the generators run strictly in the order TDF, KV, RPC, each touching
\* only its own files; a failure stops the run at once (after it no
\* generator runs and nothing more is written), the failing step itself
\* writes nothing, and what was written before it remains.
C20_OrderAndStop ==
    [][/\ error = ""
       /\ family' # family => <<family, family'>> \in FamilyOrder
       /\ Len(log') >= Len(log) /\ SubSeq(log', 1, Len(log)) = log
       /\ \A e \in NewEffects : family \in Families /\ e["file"] \in FilesOf(family)
       /\ error' # "" => (pc' = "aborted" /\ log' = log /\ family' = family)]_vars

\* C20 witness: the run failed in kvgen after tdfgen had written its files;
\* they are still on record and rpcgen has touched nothing.
C20_Witness ==
    /\ pc = "aborted" /\ family = "kv" /\ error # ""
    /\ WasWritten(tdf_output) /\ WasWritten(tdf_definitions_output)
    /\ FilesTouched \cap FilesOf("rpc") = {}

\* the generator is past the merge (and, in kvgen, past the integer re-keying):
\* doc is the model the normalisation passes run on
PastMerge ==
    pc \notin {"start", "load", "check_ext", "merge", "flags", "done", "aborted"}

\* every field of every struct of d has its array suffix
StructsNormalized(d) ==
    \A s \in Values(d["structs"]) : \A f \in FieldsOf(s) : Has(f, "array")

\* some field of some definition/command of d has its array suffix
EntriesTouched(d) ==
    \E o \in Values(d[Key]) : \E f \in FieldsOf(o) : Has(f, "array")

\* C21: in every family the array suffix / flexibility pass over the structs
\* is complete before the first definition or command field is normalised,
\* and from then on no struct's flexible flag changes: when a definition
\* field of type `struct S` is examined, S's flag is final.
C21_StructsBeforeEntries ==
    [][(PastMerge /\ doc' # NoDoc /\ EntriesTouched(doc')) =>
          /\ StructsNormalized(doc)
          /\ DOMAIN doc'["structs"] = DOMAIN doc["structs"]
          /\ \A n \in DOMAIN doc["structs"] :
                IsFlexible(doc'["structs"][n]) <=> IsFlexible(doc["structs"][n])]_vars

\* C21 witness: kvgen has normalised a definition whose field's struct was
\* found flexible: the field names it in flexible_type.
C21_Witness ==
    /\ family = "kv" /\ pc = "write_header"
    /\ \E d \in Values(doc["definitions"]) : \E f \in FieldsOf(d) :
          /\ Has(f, "flexible_type")
          /\ IsFlexible(doc["structs"][f["flexible_type"]])
          /\ IsFlexible(d)

\* a template of the running family has been rendered and written
Rendered ==
    /\ family \in Families
    /\ \E i \in DOMAIN log : log[i]["op"] = "write" /\ log[i]["file"] \in FilesOf(family)

\* the field g has every key of the field f, with the same value
FieldExtends(f, g) == \A k \in DOMAIN f : k \in DOMAIN g /\ g[k] = f[k]

\* the struct, definition or command p has every key of o; its field lists
\* have the same fields, each extended
OwnerExtends(o, p) ==
    \A k \in DOMAIN o :
       /\ k \in DOMAIN p
       /\ IF k \in ListKeys(o)
          THEN /\ Len(p[k]) = Len(o[k])
               /\ \A i \in 1..Len(o[k]) : FieldExtends(o[k][i], p[k][i])
          ELSE p[k] = o[k]

\* the model b is the model a with keys added and nothing changed or removed
DocExtends(a, b) ==
    \A k \in DOMAIN a :
       /\ k \in DOMAIN b
       /\ IF k \in {"structs", Key}
          THEN /\ DOMAIN b[k] = DOMAIN a[k]
               /\ \A n \in DOMAIN a[k] : OwnerExtends(a[k][n], b[k][n])
          ELSE b[k] = a[k]

\* C22 as stated: every annotation pass has completed before the first
\* template of a family is rendered, and the model is not changed between
\* the renders of the family.
C22_Original ==
    [][(Rendered /\ doc' # NoDoc) => doc' = doc]_vars

\* C22, as the code has it: once a template of a family has been rendered
\* the model is only extended (keys are added; no key already present is
\* changed or removed); in rpcgen, and in every family once the host-binding
\* module has been rendered, the model does not change at all.
C22_ModelOnlyExtended ==
    [][(Rendered /\ doc' # NoDoc) =>
          /\ DocExtends(doc, doc')
          /\ (family = "rpc" \/ WasWritten(BaseModule(family))) => doc' = doc]_vars

\* C22 witness: tdfgen has rendered the C header and then annotated the
\* model with the host names and types the decoder module is rendered from.
C22_Witness ==
    /\ family = "tdf" /\ pc = "generate"
    /\ WasWritten(tdf_output) /\ ~WasWritten(tdf_definitions_output)
    /\ \E o \in Owners : Has(o, "displays") /\ \E f \in FieldsOf(o) : Has(f, "py_type")

\* the log entry e is a formatter invocation
IsFormat(e) == e["op"] \in {"clang-format", "ruff"}

\* C23: every formatter invocation on a file comes after that file has been
\* written, and the file is neither opened nor written (nor formatted again)
\* afterwards: the formatter sees the file's final content.
C23_FormatAfterLastWrite ==
    \A i \in DOMAIN log :
       IsFormat(log[i]) =>
          /\ \E j \in 1..(i - 1) : log[j] = Written(log[i]["file"])
          /\ \A j \in (i + 1)..Len(log) : log[j]["file"] # log[i]["file"]

\* C23 witness: a run with extensions has finished; the extension modules
\* were formatted inside the generators and the other files at their ends.
C23_Witness ==
    /\ pc = "done"
    /\ \E i, j \in DOMAIN log :
          /\ i < j
          /\ log[i] = ruff_format(tdf_py_extensions)
          /\ log[j] = clang_format(rpc_runner_output)

\* the files of the KV family some formatter was invoked on
KvFormatted == {log[i]["file"] : i \in {j \in DOMAIN log : IsFormat(log[j])}} \cap FilesOf("kv")

\* kvgen has returned
KvReturned == family = "rpc"

\* C24 as stated: in KV generation the C header is the only output passed
\* to a formatter.
C24_Original ==
    KvFormatted \subseteq {kv_defs_output}

\* C24, amended: in KV generation the C header is the only output passed to
\* the C formatter and the host-side binding module(s) are the only outputs
\* passed to the host-language formatter; the Kconfig fragment is never
\* passed to a formatter.  Once kvgen has returned, the header and the base
\* binding module have been formatted.
C24_KconfigNeverFormatted ==
    /\ \A i \in DOMAIN log :
          log[i]["file"] \in FilesOf("kv") =>
             /\ log[i]["op"] = "clang-format" => log[i]["file"] = kv_defs_output
             /\ log[i]["op"] = "ruff" => log[i]["file"] \in {kv_py_output, kv_py_extensions}
    /\ KvReturned => {kv_defs_output, kv_py_output} \subseteq KvFormatted

\* C24 witness: kvgen has returned from a run with a KV extension; the
\* Kconfig fragment was written and both binding modules were formatted.
C24_Witness ==
    /\ KvReturned
    /\ WasWritten(kv_kconfig_output)
    /\ KvFormatted = {kv_defs_output, kv_py_output, kv_py_extensions}

\* a field of the owner has a struct type and that struct is flagged flexible
EmbedsFlaggedStruct(o) ==
    \E f \in FieldsOf(o) :
        /\ IsStructRef(f["type"])
        /\ StructName(f["type"]) \in DOMAIN doc["structs"]
        /\ IsFlexible(doc["structs"][StructName(f["type"])])

\* the entry of ID 10 whose only field is a scalar struct Vec3
IsVec3Entry(o) ==
    /\ Cardinality(FieldsOf(o)) = 1
    /\ \E f \in FieldsOf(o) : f["type"] = <<"struct", "Vec3">> /\ ~Has(f, "num")

\* C25: after normalisation a struct, definition or command is flagged
\* flexible only if one of its own fields has num = 0 or one of its fields
\* has a struct type that is itself flagged flexible; an owner with neither
\* carries no flexible flag.
C25_FlexibleOnlyIf ==
    Normalized =>
        \A o \in Owners :
            /\ IsFlexible(o) => HasFlexibleArray(o) \/ EmbedsFlaggedStruct(o)
            /\ ~(HasFlexibleArray(o) \/ EmbedsFlaggedStruct(o)) => ~Has(o, "flexible")

\* C25 witness: the normalised document with struct Vec3 (three int16
\* fields) and the ID-10 entry whose only field is a scalar struct Vec3: the
\* field's suffix is empty and neither the struct nor the entry is flagged.
C25_Witness ==
    /\ Normalized
    /\ Has(doc["structs"], "Vec3")
    /\ Len(doc["structs"]["Vec3"]["fields"]) = 3
    /\ ~Has(doc["structs"]["Vec3"], "flexible")
    /\ \E o \in Values(doc[Key]) :
          /\ IsVec3Entry(o)
          /\ \A f \in FieldsOf(o) : f["type"] = <<"struct", "Vec3">> => f["array"] = << >>
          /\ ~Has(o, "flexible")

\* TDF fields have been annotated with host names, conversions and displays
Annotated == family = "tdf" /\ pc \in {"generate", "generate_ext", "format"}

\* t is the term `op v` (v in decimal), or empty when v is the neutral value
IsTerm(t, op, v, neutral) ==
    IF v = neutral THEN t = << >>
    ELSE Len(t) >= 2 /\ t[1] = op /\ DecimalValue(Tail(t)) = v

\* the raw access of a field, wrapped in a byte-order integer decode exactly
\* when the conversion gives an `int` byte order
RawAccess(f) ==
    IF Has(f["conversion"], "int")
    THEN <<"int.from_bytes(", "self._", f["name"], ", byteorder='",
           f["conversion"]["int"], "')">>
    ELSE <<"self._", f["name"]>>

\* the expression is the raw access, then ` * m` iff m # 1, then ` + c` iff
\* c # 0, m and c defaulting to 1 and 0
ConvAsSpecified(f, conv) ==
    LET m == IF Has(f["conversion"], "m") THEN f["conversion"]["m"] ELSE 1
        c == IF Has(f["conversion"], "c") THEN f["conversion"]["c"] ELSE 0
        n == Len(RawAccess(f))
    IN /\ Len(conv) >= n
       /\ SubSeq(conv, 1, n) = RawAccess(f)
       /\ \E cut \in n..Len(conv) :
             /\ IsTerm(SubSeq(conv, n + 1, cut), " * ", m, 1)
             /\ IsTerm(SubSeq(conv, cut + 1, Len(conv)), " + ", c, 0)

\* the fields of the owner that have a conversion, in field order
RECURSIVE Converted(_)
Converted(fields) ==
    IF Len(fields) = 0 THEN << >>
    ELSE IF Has(Head(fields), "conversion")
         THEN <<Head(fields)>> \o Converted(Tail(fields))
         ELSE Converted(Tail(fields))

\* C26: after annotation every TDF struct and definition has one conversion
\* entry per field that has a "conversion", in field order, whose expression
\* is the underscore-prefixed raw access, wrapped in int.from_bytes iff an
\* `int` byte order is given, followed by ` * m` iff m # 1 and then ` + c`
\* iff c # 0; a field's host-side name is underscore-prefixed iff the field
\* has a conversion.
C26_ConversionExpression ==
    Annotated =>
        \A o \in Owners :
            /\ Len(o["conversions"]) = Len(Converted(o["fields"]))
            /\ \A i \in DOMAIN o["conversions"] :
                  /\ o["conversions"][i]["name"] = Converted(o["fields"])[i]["name"]
                  /\ ConvAsSpecified(Converted(o["fields"])[i], o["conversions"][i]["conv"])
            /\ \A f \in FieldsOf(o) :
                  f["py_name"] = IF Has(f, "conversion") THEN <<"_", f["name"]>>
                                 ELSE <<f["name"]>>

\* C26 witness: an annotated definition with a field converted by byte
\* order, scale and offset next to a field without conversion.
C26_Witness ==
    /\ Annotated
    /\ \E o \in Values(doc["definitions"]) :
          /\ \E f \in FieldsOf(o) :
                /\ Has(f, "conversion")
                /\ DOMAIN f["conversion"] = {"int", "m", "c"}
                /\ f["conversion"]["m"] > 1 /\ f["conversion"]["c"] > 0
                /\ f["py_name"] = <<"_", "a">>
          /\ \E f \in FieldsOf(o) : ~Has(f, "conversion") /\ f["py_name"] = <<"t">>
          /\ Len(o["conversions"]) = 1
          /\ Len(o["conversions"][1]["conv"]) = 10

\* fmt is `head`, the number n in decimal, `tail`
IsNumbered(fmt, head, n, tail) ==
    /\ Len(fmt) >= 3
    /\ fmt[1] = head /\ fmt[Len(fmt)] = tail
    /\ DecimalValue(SubSeq(fmt, 2, Len(fmt) - 1)) = n

\* the format the display hint d asks for; a hex width of 0 pads nothing,
\* so the unpadded format is that of width 0 as well
FormatAsSpecified(d, fmt) ==
    LET kind == IF Has(d, "fmt") THEN d["fmt"] ELSE "None"
    IN CASE kind = "hex" /\ Has(d, "digits") ->
               \/ IsNumbered(fmt, "\"0x{:0", d["digits"], "x}\"")
               \/ d["digits"] = 0 /\ fmt = <<"\"0x{:x}\"">>
         [] kind = "hex" /\ ~Has(d, "digits") -> fmt = <<"\"0x{:x}\"">>
         [] kind = "float" /\ Has(d, "digits") ->
               IsNumbered(fmt, "\"{:.", d["digits"], "f}\"")
         [] OTHER -> fmt = <<"\"{}\"">>

\* the display entry the specification gives the field f
DisplayAsSpecified(f, e) ==
    /\ e["name"] = f["name"]
    /\ IF ~Has(f, "display")
       THEN e["fmt"] = <<"\"{}\"">> /\ e["postfix"] = <<"\"\"">>
       ELSE /\ FormatAsSpecified(f["display"], e["fmt"])
            /\ e["postfix"] =
                  <<"\"">> \o (IF Has(f["display"], "postfix") THEN f["display"]["postfix"]
                               ELSE << >>) \o <<"\"">>

\* C27 as stated: after annotation every TDF struct and definition has
\* exactly one display entry per field, in field order: plain interpolation
\* and empty postfix without a display hint, zero-padded hex of the given
\* width for hex with a digit count, unpadded hex for hex without one, a
\* fixed-decimal format for float with a digit count, the postfix verbatim.
C27_Original ==
    Annotated =>
        \A o \in Owners :
            /\ Len(o["displays"]) = Len(o["fields"])
            /\ \A i \in DOMAIN o["fields"] :
                  DisplayAsSpecified(o["fields"][i], o["displays"][i])

\* a float display hint with the digit count 0
FloatZeroDigits(f) ==
    /\ Has(f, "display") /\ Has(f["display"], "fmt") /\ Has(f["display"], "digits")
    /\ f["display"]["fmt"] = "float" /\ f["display"]["digits"] = 0

\* C27, as the code has it: the display entries are as stated except for a
\* float hint with the digit count 0, which gets the plain interpolation.
C27_DisplayUnlessZeroDigits ==
    Annotated =>
        \A o \in Owners :
            /\ Len(o["displays"]) = Len(o["fields"])
            /\ \A i \in DOMAIN o["fields"] :
                  IF FloatZeroDigits(o["fields"][i])
                  THEN o["displays"][i]["fmt"] = <<"\"{}\"">>
                  ELSE DisplayAsSpecified(o["fields"][i], o["displays"][i])

\* a float hint with a positive digit count got its fixed-decimal format
C27_Reached ==
    /\ Annotated
    /\ \E o \in Values(doc["definitions"]) :
          /\ Has(o["fields"][1], "display")
          /\ DOMAIN o["fields"][1]["display"] = {"fmt", "digits", "postfix"}
          /\ o["fields"][1]["display"]["digits"] = MaxNum
          /\ o["displays"][1]["fmt"] = <<"\"{:.", DigitChar[MaxNum + 1], "f}\"">>
          /\ o["displays"][1]["postfix"] = <<"\"", "V", "\"">>

\* the merged RPC document the passes of rpcgen start from
MergedRpcInput ==
    IF ext0 = NoDoc THEN base0
    ELSE MergeExtension(base0, TagExtension(ext0, "commands"), "commands")

\* C28: in rpcgen the array suffix pass and the enum erasure pass commute.
\* On every merged RPC document one order raises exactly when the other
\* does, and otherwise both orders give the same model; the model rpcgen
\* has after its two passes is the one the opposite order gives.
C28_PassesCommute ==
    /\ (family = "rpc" /\ pc = "normalize_structs") =>
          LET raisesAE == RpcArraySuffixRaises(doc)
                             \/ RpcEnumErasureRaises(RpcArraySuffixPass(doc))
              raisesEA == RpcEnumErasureRaises(doc)
                             \/ RpcArraySuffixRaises(RpcEnumErasurePass(doc))
          IN /\ raisesAE <=> raisesEA
             /\ ~raisesAE =>
                   RpcEnumErasurePass(RpcArraySuffixPass(doc))
                      = RpcArraySuffixPass(RpcEnumErasurePass(doc))
    /\ (family = "rpc" /\ pc = "py_types") =>
          doc = RpcArraySuffixPass(RpcEnumErasurePass(MergedRpcInput))

\* C28 witness: rpcgen has run both passes on a document with a struct of an
\* enum-typed scalar and an enum-typed array: suffixes are set and enum
\* types erased.
C28_Witness ==
    /\ family = "rpc" /\ pc = "py_types"
    /\ \E s \in Values(base0["structs"]) :
          /\ \E f \in FieldsOf(s) : IsEnumType(f["type"])
          /\ \E f \in FieldsOf(s) : Has(f, "num") /\ IsEnumType(f["type"])
    /\ \E s \in Values(doc["structs"]) :
          /\ \E f \in FieldsOf(s) : f["name"] = "state" /\ f["type"] = <<"uint8_t">>
                                    /\ f["array"] = << >>
          /\ \E f \in FieldsOf(s) : f["name"] = "codes" /\ f["type"] = <<"uint8_t">>
                                    /\ Has(f, "num") /\ Len(f["array"]) = 3

\* every assertion of the extension block holds of the loaded documents
AllAssertionsHold ==
    /\ \A id \in DOMAIN ext0[Key] : ParseInt(id) > ContractThreshold
    /\ \A n \in DOMAIN ext0["structs"] : n \notin DOMAIN base0["structs"]

\* C29: while the assertions of a family's extension block run, and when one
\* of them has failed, the in-memory base document is the document that was
\* loaded; extension structs and entries are in the base maps only in runs
\* whose extension document passed every ID and struct-name assertion.
C29_BaseUnchangedOnFailure ==
    /\ StoppedAtAssertions => doc = base0
    /\ (ExtLoaded /\ pc \in {"merge", AfterMerge(family)}) => AllAssertionsHold
    /\ (ExtLoaded /\ ~AllAssertionsHold /\ pc \notin {"load", "check_ext"}) =>
          pc = "aborted" /\ error = "AssertionError" /\ doc = base0

\* C29 witness: an extension document with an entry in the extension range
\* and a struct name of the base: the struct assertion failed after the ID
\* loop had passed, and the base document holds none of it.
C29_Witness ==
    /\ pc = "aborted" /\ error = "AssertionError" /\ ExtLoaded
    /\ DOMAIN ext0[Key] # {}
    /\ \A id \in DOMAIN ext0[Key] : ParseInt(id) > ContractThreshold
    /\ \E n \in DOMAIN ext0["structs"] : n \in DOMAIN base0["structs"]
    /\ doc = base0
    /\ \A id \in DOMAIN ext0[Key] : id \notin DOMAIN doc[Key]

\* rpcgen holds its merged document
RpcModel == family = "rpc" /\ doc # NoDoc /\ pc \notin {"load", "check_ext", "merge"}

\* a struct or command of the extension document has a field typed with an
\* enum that only the extension document defines
ExtOnlyEnumField ==
    \E o \in Values(ext0["structs"]) \cup Values(ext0["commands"]) :
       \E f \in FieldsOf(o) :
          /\ IsEnumType(f["type"])
          /\ f["type"][2] \in DOMAIN ext0["enums"]
          /\ f["type"][2] \notin DOMAIN base0["enums"]

\* the render records of the extension-only RPC host module
ExtensionRenders ==
    {log[i] : i \in {j \in DOMAIN log : log[j]["op"] = "render"
                                        /\ log[j]["file"] = rpc_py_extensions}}

\* C30: the RPC merge leaves the enums map untouched: the enums map of the
\* merged document is the base document's, whatever the extension document
\* holds, and through the rest of rpcgen it has the base's enums with their
\* declared types and no other; a run whose extension document types a field with an enum
\* defined only in the extension document does not get past the enum
\* erasure (KeyError); and the extension-only host module is rendered with
\* has_enums true only if some enum of the base document carries
\* extension = true.
C30_EnumsNotMerged ==
    /\ (Merged /\ family = "rpc") => doc["enums"] = base0["enums"]
    /\ RpcModel =>
          /\ DOMAIN doc["enums"] = DOMAIN base0["enums"]
          /\ \A n \in DOMAIN doc["enums"] :
                doc["enums"][n]["type"] = base0["enums"][n]["type"]
    /\ (family = "rpc" /\ ExtLoaded /\ ExtOnlyEnumField) =>
          \/ pc \in {"check_ext", "merge", "normalize_structs", "normalize_commands",
                     "enum_replace"}
          \/ pc = "aborted" /\ error \in {"AssertionError", "KeyError"}
    /\ (family = "rpc" /\ pc = "format") =>
          \A r \in ExtensionRenders :
             r["has_enums"] => \E e \in Values(base0["enums"]) : IsTagged(e)

\* C30 witness: rpcgen has rendered the extension-only module with has_enums
\* true: the base document has a tagged enum, the extension document an
\* enum of its own that is not in the merged enums map.
C30_Witness ==
    /\ family = "rpc" /\ pc = "format" /\ ExtLoaded
    /\ \E n \in DOMAIN ext0["enums"] : n \notin DOMAIN doc["enums"]
    /\ DOMAIN doc["enums"] = DOMAIN base0["enums"]
    /\ \E e \in Values(base0["enums"]) : IsTagged(e)
    /\ \E r \in ExtensionRenders : r["has_enums"] /\ r["extensions"]

\* the run was stopped by the lookup of an enum only the extension defines
C30_AbortReached ==
    /\ family = "rpc" /\ ExtLoaded /\ ExtOnlyEnumField
    /\ pc = "aborted" /\ error = "KeyError"
    /\ \A f \in InputFields : IsEnumType(f["type"]) \/ ~UnresolvedType(f["type"])

====
